---- MODULE Spec2Model ----
(***************************************************************************)
(* Model of the meter sample accumulator (meter.h / meter.cpp) of the AOS  *)
(* metering app: Report::Accumulator, Report::PhaseAccumulator,            *)
(* Report::SampleAccumulator with the Report that wraps it, the file-local *)
(* round(), and the producer of the app (parseReportInterval and           *)
(* parseMeterSvcData), which feeds the Report and queues its summaries.    *)
(*                                                                         *)
(* A double is a record [c, num, den].  c is "nan", "pinf", "ninf" or      *)
(* "fin"; a finite double stands for the decimal num / (1000 * den), that  *)
(* is, thousandths, with den = 1 for every stored value and den > 1 only   *)
(* for the quotient total / count while it is being rounded.  The finite   *)
(* inputs of the specifications are decimals whose sums are exact in IEEE  *)
(* binary64, so that + is exact; the one place where binary64 differs from *)
(* decimal arithmetic on these inputs, the product pow(10, p) * n inside   *)
(* round(), is modelled with its rounding error (ProductError).            *)
(***************************************************************************)
EXTENDS Integers, Sequences, FiniteSets, TLC

VARIABLES
    NDEBUG,     \* build: TRUE when assert() is compiled out
    app,        \* build: the copy of the app that is compiled, one of AppCopies
    pc,         \* "ready", "aborted" once an assert has failed, "crashed" once
                \* a queue thread has ended the process, or "terminated" once
                \* an exception has left main() uncaught
    kind,       \* SpecAcc: which derived Accumulator is under test
    acc,        \* SpecAcc: the Accumulator (histogram, total, min, max)
    summary,    \* SpecAcc: the caller's Summary object
    phaseAcc,   \* SpecPhase: the PhaseAccumulator, quantity -> Accumulator
    rnd,        \* SpecRound: [n, p, res], argument and result of round()
    rep,        \* the Report's SampleAccumulator (Report::acc)
    sampleSummary, \* the caller's SampleSummary object
    now,        \* the reading of the clock
    reportPeriod,  \* SpecProducer: seconds between reports
    reportTime, \* SpecProducer: scheduled time of the next report, in ms
    reportQueue,   \* SpecProducer: the summaries queued for transmission
    trace,      \* SpecProducer: the calls on report made by the last handler
    steady,     \* SpecProducer: the reading of steady_clock, in ms
    pushed,     \* SpecProducer: sum of the counts of the summaries queued so far
    main,       \* SpecSetup: the setup loop of main(), [pc, at, backoffSeconds, ...]
    containerPath, \* the global containerPath that main() writes and the worker reads
    queueState, \* SpecThreads, SpecDeletion: for reportQueue and for deletionQueue "sound", or
                \* "broken" once a push and a pop have run on it at the same time
    callback,   \* SpecThreads, SpecDeletion: the thread of notificationCallback, [pc, pending, taken]
    worker,     \* SpecThreads, SpecDeletion: report_queue_thread, [pc, summary, json, ok]
    deletionQueue, \* the paths queued for deletion
    deleter,    \* SpecDeletion: deletion_queue_thread, [pc, path]
    coap,       \* what was queued and sent, the requests handed to
                \* appEntity.sendRequest in order, how many elements that were
                \* never pushed the queue threads have taken, and how many
                \* paths were queued for deletion
    last,       \* the last call: [op, val, count, ret]
    prev,       \* program state right before the last call
    accepted,   \* values accepted since construction or the last reset
    nOk,        \* number of successful accumulate calls since then
    nFail,      \* number of accumulate calls on the Report that failed since then
    calls       \* number of calls made so far

reportVars == <<rep, sampleSummary, now, nFail>>

appVars ==
    <<main, containerPath, queueState, callback, worker, deletionQueue, deleter, coap>>

producerVars == <<reportPeriod, reportTime, reportQueue, trace, steady, pushed, appVars>>

vars == <<NDEBUG, app, pc, kind, acc, summary, phaseAcc, rnd, reportVars, producerVars,
          last, prev, accepted, nOk, calls>>

----------------------------------------------------------------------------
(* Bounds *)

MaxCalls == 3
MaxPhaseCalls == 2
MaxCount == 3
MaxRound == 2500
MaxReportCalls == 4
MaxNow == 2
MaxProducerCalls == 3
MaxSetupSteps == 8
MaxPhantoms == 4
MaxDeletions == 2

----------------------------------------------------------------------------
(* Program constants *)

HISTOGRAM_BINS == 12
EXPECTED_VOLTAGE == 230
EXPECTED_FREQUENCY == 50
REPORT_PERIOD_DEFAULT == 3600
BACKOFF_DEFAULT_S == 30
SPOOF_METER == FALSE
APP_PATH_CONFIG == "./meterSummary/reportInterval"

\* the reading of steady_clock, in ms, when the process starts
BootTime == 1000

Bins == 0 .. (HISTOGRAM_BINS - 1)

----------------------------------------------------------------------------
(* double *)

NaN == [c |-> "nan", num |-> 0, den |-> 1]
HUGE_VAL == [c |-> "pinf", num |-> 0, den |-> 1]
NegInf == [c |-> "ninf", num |-> 0, den |-> 1]
Fin(x) == [c |-> "fin", num |-> x, den |-> 1]

isnan(x) == x.c = "nan"
IsFinite(x) == x.c = "fin"

\* a < b on doubles: false when either side is NaN
Lt(a, b) ==
    CASE a.c = "nan" \/ b.c = "nan" -> FALSE
      [] a.c = "pinf" -> FALSE
      [] b.c = "ninf" -> FALSE
      [] a.c = "ninf" -> TRUE
      [] b.c = "pinf" -> TRUE
      [] OTHER -> a.num * b.den < b.num * a.den

\* a > b on doubles
Gt(a, b) == Lt(b, a)

\* a + b on doubles (den = 1 on both sides)
Add(a, b) ==
    CASE a.c = "nan" \/ b.c = "nan" -> NaN
      [] a.c = "pinf" -> IF b.c = "ninf" THEN NaN ELSE HUGE_VAL
      [] a.c = "ninf" -> IF b.c = "pinf" THEN NaN ELSE NegInf
      [] b.c = "pinf" -> HUGE_VAL
      [] b.c = "ninf" -> NegInf
      [] OTHER -> Fin(a.num + b.num)

RECURSIVE Gcd(_, _)
Gcd(a, b) == IF b = 0 THEN a ELSE Gcd(b, a % b)

Abs(x) == IF x < 0 THEN -x ELSE x

\* a / count for a double a (den = 1) and a uint32_t count > 0, in lowest terms
Div(a, count) ==
    IF a.c # "fin" THEN a
    ELSE LET g == Gcd(Abs(a.num), count)
         IN  [c |-> "fin", num |-> a.num \div g, den |-> count \div g]

----------------------------------------------------------------------------
(* round(), meter.cpp *)

Pow2(n) == 2 ^ n

Pow10(n) == 10 ^ n

\* floor(log2(k)) for k >= 1
RECURSIVE Log2Floor(_)
Log2Floor(k) == IF k < 2 THEN 0 ELSE 1 + Log2Floor(k \div 2)

\* 2^s mod b
\* by repeated squaring, every intermediate product below b * b
SquareMod(x, b) == (x * x) % b

RECURSIVE Pow2Mod(_, _)
Pow2Mod(s, b) ==
    IF s = 0 THEN 1 % b
    ELSE IF s % 2 = 1 THEN (2 * Pow2Mod(s - 1, b)) % b
    ELSE SquareMod(Pow2Mod(s \div 2, b), b)

\* the least d with b * 2^e <= k * 2^d, starting the search at d
RECURSIVE ExpGap(_, _, _, _)
ExpGap(k, b, e, d) == IF b * Pow2(e) <= k * Pow2(d) THEN d ELSE ExpGap(k, b, e, d + 1)

\* The sign of  fl(b * fl(k / b)) - k  in IEEE binary64, round to nearest
\* even, for integers k >= 1 and b = pow(10, p): the double nearest to the
\* decimal k / b, multiplied by b, falls short of k (-1), is k (0) or exceeds
\* k (1).  fl(k / b) has the 53-bit significand m nearest to k * 2^s / b, so
\* b * fl(k / b) = k + r / 2^s with r = b * m - k * 2^s, and the product
\* rounds away from k when r is more than half a unit in the last place of k.
ProductError(k, b) ==
    LET e == Log2Floor(k)
        d == ExpGap(k, b, e, 0)
        s == 52 - e + d
        R == ((k % b) * Pow2Mod(s, b)) % b
        r == IF 2 * R < b THEN -R ELSE b - R
    IN  CASE r > 0 -> IF 2 * r > Pow2(d) THEN 1 ELSE 0
          [] r < 0 -> IF k = Pow2(e)
                      THEN (IF 4 * (-r) > Pow2(d) THEN -1 ELSE 0)
                      ELSE (IF 2 * (-r) > Pow2(d) THEN -1 ELSE 0)
          [] OTHER -> 0

\* floor(pow(10, decimalPlaces) * n) for a finite n, as an integer
FloorScaled(n, decimalPlaces) ==
    LET u == Pow10(3 - decimalPlaces) * n.den
        k == n.num \div u
    IN  IF n.num % u # 0 \/ k = 0 THEN k
        ELSE IF k > 0
             THEN (IF ProductError(k, Pow10(decimalPlaces)) < 0 THEN k - 1 ELSE k)
             ELSE (IF ProductError(-k, Pow10(decimalPlaces)) > 0 THEN k - 1 ELSE k)

\* static double round(double n, int decimalPlaces)
round(n, decimalPlaces) ==
    IF n.c # "fin" THEN n
    ELSE Fin(FloorScaled(n, decimalPlaces) * Pow10(3 - decimalPlaces))

----------------------------------------------------------------------------
(* Histogram bin boundaries and precisions, meter.h *)

\* mutant: the last initialiser is left out, so boundary[11] is 0.0
Table_short(seq) == [i \in Bins |-> IF i < HISTOGRAM_BINS - 1 THEN Fin(seq[i + 1]) ELSE Fin(0)]

Table(seq) == [i \in Bins |-> IF i < HISTOGRAM_BINS - 1 THEN Fin(seq[i + 1]) ELSE HUGE_VAL]

binBoundaryV ==
    IF EXPECTED_VOLTAGE = 110
    THEN Table(<<85000, 90000, 95000, 100000, 105000, 110000,
                 115000, 120000, 125000, 130000, 135000>>)
    ELSE Table(<<205000, 210000, 215000, 220000, 225000, 230000,
                 235000, 240000, 245000, 250000, 255000>>)

binBoundaryI ==
    Table(<<50, 100, 200, 500, 1000, 2000, 5000, 10000, 20000, 50000, 100000>>)

binBoundaryP ==
    Table(<<-10000000, -3000000, -1000000, -300000, -100000, 0,
            100000, 300000, 1000000, 3000000, 10000000>>)

binBoundaryQ ==
    Table(<<-10000000, -3000000, -1000000, -300000, -100000, 0,
            100000, 300000, 1000000, 3000000, 10000000>>)

binBoundaryPF ==
    Table(<<-1000, -800, -600, -400, -200, 0, 200, 400, 600, 800, 1000>>)

binBoundaryF ==
    IF EXPECTED_FREQUENCY = 50
    THEN Table(<<49750, 49800, 49850, 49900, 49950, 50000,
                 50050, 50100, 50150, 50200, 50250>>)
    ELSE Table(<<59750, 59800, 59850, 59900, 59950, 60000,
                 60050, 60100, 60150, 60200, 60250>>)

\* The six derived accumulators: AccumulatorVrms, AccumulatorIrms,
\* AccumulatorPowerActive, AccumulatorPowerReactive, AccumulatorPowerFactor,
\* AccumulatorFrequency
Kinds == {"V", "I", "P", "Q", "PF", "F"}

\* binBoundaryPtr as set by the derived class's constructor
binBoundaryPtr(k) ==
    CASE k = "V" -> binBoundaryV
      [] k = "I" -> binBoundaryI
      [] k = "P" -> binBoundaryP
      [] k = "Q" -> binBoundaryQ
      [] k = "PF" -> binBoundaryPF
      [] k = "F" -> binBoundaryF

\* mutant: AccumulatorIrms sets decimalPlaces = 1
decimalPlaces_one(k) ==
    CASE k = "V" -> 1
      [] k = "I" -> 1
      [] k = "P" -> 1
      [] k = "Q" -> 1
      [] k = "PF" -> 2
      [] k = "F" -> 1

\* decimalPlaces as set by the derived class's constructor
decimalPlaces(k) ==
    CASE k = "V" -> 1
      [] k = "I" -> 2
      [] k = "P" -> 1
      [] k = "Q" -> 1
      [] k = "PF" -> 2
      [] k = "F" -> 1

----------------------------------------------------------------------------
(* Histogram, Summary, Report::Accumulator *)

\* Histogram::Histogram() / Histogram::reset()
Histogram_reset == [i \in Bins |-> 0]

\* Summary::Summary()
Summary_new == [histogram |-> Histogram_reset, avg |-> Fin(0), min |-> NaN, max |-> NaN]

\* Summary::reset()
Summary_reset == [histogram |-> Histogram_reset, avg |-> Fin(0), min |-> NaN, max |-> NaN]

\* Accumulator::Accumulator() / Accumulator::reset()
Accumulator_reset == [histogram |-> Histogram_reset, total |-> Fin(0), min |-> NaN, max |-> NaN]

\* mutant: the loop breaks on val <= boundary
RECURSIVE ScanBin_le(_, _, _)
ScanBin_le(val, boundary, bin) ==
    IF bin < HISTOGRAM_BINS /\ Lt(boundary[bin], val)
    THEN ScanBin_le(val, boundary, bin + 1)
    ELSE bin

\* the for loop of Accumulator::accumulate: the first bin whose boundary
\* exceeds val, or HISTOGRAM_BINS when there is none
RECURSIVE ScanBin(_, _, _)
ScanBin(val, boundary, bin) ==
    IF bin < HISTOGRAM_BINS /\ ~ Lt(val, boundary[bin])
    THEN ScanBin(val, boundary, bin + 1)
    ELSE bin

\* mutant: the loop counts every matching bin instead of breaking at the first
Accumulator_accumulate_nobreak(a, k, val) ==
    LET bin == ScanBin(val, binBoundaryPtr(k), 0)
    IN  IF bin < HISTOGRAM_BINS
        THEN [acc |-> [histogram |-> [i \in Bins |-> IF Lt(val, binBoundaryPtr(k)[i])
                                                     THEN a.histogram[i] + 1
                                                     ELSE a.histogram[i]],
                       total |-> Add(a.total, val),
                       min |-> IF Lt(val, a.min) \/ isnan(a.min) THEN val ELSE a.min,
                       max |-> IF Gt(val, a.max) \/ isnan(a.max) THEN val ELSE a.max],
              ret |-> TRUE]
        ELSE [acc |-> a, ret |-> FALSE]

\* mutant: total += val is done before the bin is checked
Accumulator_accumulate_early(a, k, val) ==
    LET bin == ScanBin(val, binBoundaryPtr(k), 0)
    IN  IF bin < HISTOGRAM_BINS
        THEN [acc |-> [histogram |-> [a.histogram EXCEPT ![bin] = @ + 1],
                       total |-> Add(a.total, val),
                       min |-> IF Lt(val, a.min) \/ isnan(a.min) THEN val ELSE a.min,
                       max |-> IF Gt(val, a.max) \/ isnan(a.max) THEN val ELSE a.max],
              ret |-> TRUE]
        ELSE [acc |-> [a EXCEPT !.total = Add(a.total, val)], ret |-> FALSE]

\* mutant: min and max are updated without the std::isnan() tests
Accumulator_accumulate_nonan(a, k, val) ==
    LET bin == ScanBin(val, binBoundaryPtr(k), 0)
    IN  IF bin < HISTOGRAM_BINS
        THEN [acc |-> [histogram |-> [a.histogram EXCEPT ![bin] = @ + 1],
                       total |-> Add(a.total, val),
                       min |-> IF Lt(val, a.min) THEN val ELSE a.min,
                       max |-> IF Gt(val, a.max) THEN val ELSE a.max],
              ret |-> TRUE]
        ELSE [acc |-> a, ret |-> FALSE]

\* mutant: the comparisons of the min and max updates are swapped
Accumulator_accumulate_swapped(a, k, val) ==
    LET bin == ScanBin(val, binBoundaryPtr(k), 0)
    IN  IF bin < HISTOGRAM_BINS
        THEN [acc |-> [histogram |-> [a.histogram EXCEPT ![bin] = @ + 1],
                       total |-> Add(a.total, val),
                       min |-> IF Gt(val, a.min) \/ isnan(a.min) THEN val ELSE a.min,
                       max |-> IF Lt(val, a.max) \/ isnan(a.max) THEN val ELSE a.max],
              ret |-> TRUE]
        ELSE [acc |-> a, ret |-> FALSE]

\* bool Report::Accumulator::accumulate(const double val)
Accumulator_accumulate(a, k, val) ==
    LET bin == ScanBin(val, binBoundaryPtr(k), 0)
    IN  IF bin < HISTOGRAM_BINS
        THEN [acc |-> [histogram |-> [a.histogram EXCEPT ![bin] = @ + 1],
                       total |-> Add(a.total, val),
                       min |-> IF Lt(val, a.min) \/ isnan(a.min) THEN val ELSE a.min,
                       max |-> IF Gt(val, a.max) \/ isnan(a.max) THEN val ELSE a.max],
              ret |-> TRUE]
        ELSE [acc |-> a, ret |-> FALSE]

\* bool Report::Accumulator::summarise(Summary& summary, uint32_t count) const
\* asserted: the call ran into assert(false)
Accumulator_summarise(a, k, s, count) ==
    IF count = 0
    THEN [summary |-> s, ret |-> FALSE, asserted |-> TRUE]
    ELSE [summary |-> [histogram |-> a.histogram,
                       avg |-> round(Div(a.total, count), decimalPlaces(k)),
                       min |-> round(a.min, decimalPlaces(k)),
                       max |-> round(a.max, decimalPlaces(k))],
          ret |-> TRUE, asserted |-> FALSE]

----------------------------------------------------------------------------
(* Report::PhaseAccumulator *)

\* the members of Phase, PhaseSummary and PhaseAccumulator, in declaration order
PhaseFields == <<"vrms", "irms", "powerActive", "powerReactive", "powerFactor">>

\* the derived Accumulator type of each member of PhaseAccumulator
KindOf(f) ==
    CASE f = "vrms" -> "V"
      [] f = "irms" -> "I"
      [] f = "powerActive" -> "P"
      [] f = "powerReactive" -> "Q"
      [] f = "powerFactor" -> "PF"

FieldSet == {PhaseFields[i] : i \in 1 .. Len(PhaseFields)}

\* PhaseAccumulator after construction / PhaseAccumulator::reset()
PhaseAccumulator_reset == [f \in FieldSet |-> Accumulator_reset]

\* bool Report::PhaseAccumulator::accumulate(const Phase& phase)
\* asserted: the call ran into assert(false)
PhaseAccumulator_accumulate(pa, phase) ==
    LET r == [f \in FieldSet |-> Accumulator_accumulate(pa[f], KindOf(f), phase[f])]
        success == [f \in FieldSet |-> r[f].ret]
        all == success["vrms"] /\ success["irms"] /\ success["powerActive"]
                 /\ success["powerReactive"] /\ success["powerFactor"]
    IN  [acc |-> [f \in FieldSet |-> r[f].acc], ret |-> all, asserted |-> ~ all]

\* bool Report::PhaseAccumulator::summarise(PhaseSummary&, uint32_t count) const
\* The five calls get the same count, so they succeed or fail together, and a
\* failing Accumulator::summarise writes nothing: whether the first failing
\* call ends the process or the others still run, the PhaseSummary is the same.
PhaseAccumulator_summarise(pa, ps, count) ==
    LET Combined(r) ==
            LET success == [f \in FieldSet |-> r[f].ret]
                all == success["vrms"] /\ success["irms"] /\ success["powerActive"]
                         /\ success["powerReactive"] /\ success["powerFactor"]
            IN  [summary |-> [f \in FieldSet |-> r[f].summary], ret |-> all,
                 asserted |-> ~ all]
    IN  Combined([f \in FieldSet |-> Accumulator_summarise(pa[f], KindOf(f), ps[f], count)])

----------------------------------------------------------------------------
(* Report::SampleAccumulator and Report *)

INT32_MAX == 2147483647

\* a default-constructed PhaseSummary
PhaseSummary_new == [f \in FieldSet |-> Summary_new]

\* SampleSummary(): count = 0, the two time points at the epoch of the clock
SampleSummary_new ==
    [p1 |-> PhaseSummary_new, p2 |-> PhaseSummary_new, p3 |-> PhaseSummary_new,
     frequency |-> Summary_new, count |-> 0, tsStart |-> 0, tsEnd |-> 0]

\* PhaseSummary::reset()
PhaseSummary_reset == [f \in FieldSet |-> Summary_reset]

\* SampleSummary::reset() when system_clock::now() reads t; intervalMin and
\* intervalMax, which it also sets, are members that nothing reads
SampleSummary_reset(t) ==
    [p1 |-> PhaseSummary_reset, p2 |-> PhaseSummary_reset, p3 |-> PhaseSummary_reset,
     frequency |-> Summary_reset, count |-> 0, tsStart |-> t, tsEnd |-> t]

\* mutant: reset() sets tsLast and tsStart but leaves tsEnd at the epoch
SampleAccumulator_reset_start(t) ==
    [p1 |-> PhaseAccumulator_reset, p2 |-> PhaseAccumulator_reset,
     p3 |-> PhaseAccumulator_reset, frequency |-> Accumulator_reset,
     count |-> 0, intervalMin |-> INT32_MAX, intervalMax |-> 0,
     tsLast |-> t, tsStart |-> t, tsEnd |-> 0]

\* SampleAccumulator::reset() when system_clock::now() reads t; Report()
\* calls it, so this is also the accumulator of a new Report
SampleAccumulator_reset(t) ==
    [p1 |-> PhaseAccumulator_reset, p2 |-> PhaseAccumulator_reset,
     p3 |-> PhaseAccumulator_reset, frequency |-> Accumulator_reset,
     count |-> 0, intervalMin |-> INT32_MAX, intervalMax |-> 0,
     tsLast |-> t, tsStart |-> t, tsEnd |-> t]

\* the result of a call that is not made because an assert has ended the process
NotRun(a) == [acc |-> a, ret |-> FALSE, asserted |-> FALSE]

\* mutant: count is incremented by a failed call too
SampleAccumulator_accumulate_counting(sa, sample, t, ndebug) ==
    LET r1 == PhaseAccumulator_accumulate(sa.p1, sample.p1)
        r2 == PhaseAccumulator_accumulate(sa.p2, sample.p2)
        r3 == PhaseAccumulator_accumulate(sa.p3, sample.p3)
        rF == Accumulator_accumulate(sa.frequency, "F", sample.frequency)
        children == [sa EXCEPT !.p1 = r1.acc, !.p2 = r2.acc, !.p3 = r3.acc,
                               !.frequency = rF.acc, !.count = @ + 1]
    IN  IF r1.ret /\ r2.ret /\ r3.ret /\ rF.ret
        THEN [acc |-> [children EXCEPT !.tsEnd = t], ret |-> TRUE, asserted |-> FALSE]
        ELSE [acc |-> children, ret |-> FALSE, asserted |-> TRUE]

\* mutant: a failed call sets count back to 0
SampleAccumulator_accumulate_clearing(sa, sample, t, ndebug) ==
    LET r1 == PhaseAccumulator_accumulate(sa.p1, sample.p1)
        r2 == PhaseAccumulator_accumulate(sa.p2, sample.p2)
        r3 == PhaseAccumulator_accumulate(sa.p3, sample.p3)
        rF == Accumulator_accumulate(sa.frequency, "F", sample.frequency)
        children == [sa EXCEPT !.p1 = r1.acc, !.p2 = r2.acc, !.p3 = r3.acc,
                               !.frequency = rF.acc]
    IN  IF r1.ret /\ r2.ret /\ r3.ret /\ rF.ret
        THEN [acc |-> [children EXCEPT !.count = @ + 1, !.tsEnd = t],
              ret |-> TRUE, asserted |-> FALSE]
        ELSE [acc |-> [children EXCEPT !.count = 0], ret |-> FALSE, asserted |-> TRUE]

\* bool Report::SampleAccumulator::accumulate(const Sample& sample), with t
\* the reading of system_clock::now().  With assertions compiled in (~ndebug)
\* the assert of a failing PhaseAccumulator::accumulate ends the process
\* before the calls that follow it are made.
SampleAccumulator_accumulate(sa, sample, t, ndebug) ==
    LET r1 == PhaseAccumulator_accumulate(sa.p1, sample.p1)
        run2 == ndebug \/ ~ r1.asserted
        r2 == IF run2 THEN PhaseAccumulator_accumulate(sa.p2, sample.p2) ELSE NotRun(sa.p2)
        run3 == run2 /\ (ndebug \/ ~ r2.asserted)
        r3 == IF run3 THEN PhaseAccumulator_accumulate(sa.p3, sample.p3) ELSE NotRun(sa.p3)
        runF == run3 /\ (ndebug \/ ~ r3.asserted)
        rF == IF runF THEN Accumulator_accumulate(sa.frequency, "F", sample.frequency)
              ELSE [acc |-> sa.frequency, ret |-> FALSE]
        successP1 == r1.ret
        successP2 == r2.ret
        successP3 == r3.ret
        successF == rF.ret
        children == [sa EXCEPT !.p1 = r1.acc, !.p2 = r2.acc, !.p3 = r3.acc,
                               !.frequency = rF.acc]
    IN  IF successP1 /\ successP2 /\ successP3 /\ successF
        THEN [acc |-> [children EXCEPT !.count = @ + 1, !.tsEnd = t],
              ret |-> TRUE, asserted |-> FALSE]
        ELSE [acc |-> children, ret |-> FALSE, asserted |-> TRUE]

\* mutant: the frequency is summarised over one sample more than the phases
SampleAccumulator_summarise_partial(sa, ss, ndebug) ==
    LET Combined(r1, r2, r3, rF) ==
            LET successP1 == r1.ret
                successP2 == r2.ret
                successP3 == r3.ret
                successF == rF.ret
                children == [ss EXCEPT !.p1 = r1.summary, !.p2 = r2.summary,
                                       !.p3 = r3.summary, !.frequency = rF.summary]
                childAsserted == r1.asserted \/ r2.asserted \/ r3.asserted \/ rF.asserted
            IN  IF childAsserted /\ ~ ndebug
                THEN [summary |-> children, ret |-> FALSE, asserted |-> TRUE]
                ELSE [summary |-> [children EXCEPT !.count = sa.count,
                                                   !.tsStart = sa.tsStart,
                                                   !.tsEnd = sa.tsEnd],
                      ret |-> successP1 /\ successP2 /\ successP3 /\ successF,
                      asserted |-> ~ (successP1 /\ successP2 /\ successP3 /\ successF)]
    IN  Combined(PhaseAccumulator_summarise(sa.p1, ss.p1, sa.count),
                 PhaseAccumulator_summarise(sa.p2, ss.p2, sa.count),
                 PhaseAccumulator_summarise(sa.p3, ss.p3, sa.count),
                 Accumulator_summarise(sa.frequency, "F", ss.frequency, sa.count + 1))

\* mutant: every child is summarised over count + 1 samples
SampleAccumulator_summarise_plusone(sa, ss, ndebug) ==
    [summary |-> [ss EXCEPT
                    !.p1 = PhaseAccumulator_summarise(sa.p1, ss.p1, sa.count + 1).summary,
                    !.p2 = PhaseAccumulator_summarise(sa.p2, ss.p2, sa.count + 1).summary,
                    !.p3 = PhaseAccumulator_summarise(sa.p3, ss.p3, sa.count + 1).summary,
                    !.frequency = Accumulator_summarise(sa.frequency, "F", ss.frequency,
                                                        sa.count + 1).summary,
                    !.count = sa.count, !.tsStart = sa.tsStart, !.tsEnd = sa.tsEnd],
     ret |-> TRUE, asserted |-> FALSE]

\* bool Report::SampleAccumulator::summarise(SampleSummary& sampleSummary) const
\* With assertions compiled in (~ndebug) the assert of the first failing child
\* ends the process before count and the timestamps are written.
SampleAccumulator_summarise(sa, ss, ndebug) ==
    LET Combined(r1, r2, r3, rF) ==
            LET successP1 == r1.ret
                successP2 == r2.ret
                successP3 == r3.ret
                successF == rF.ret
                children == [ss EXCEPT !.p1 = r1.summary, !.p2 = r2.summary,
                                       !.p3 = r3.summary, !.frequency = rF.summary]
                childAsserted == r1.asserted \/ r2.asserted \/ r3.asserted \/ rF.asserted
            IN  IF childAsserted /\ ~ ndebug
                THEN [summary |-> children, ret |-> FALSE, asserted |-> TRUE]
                ELSE [summary |-> [children EXCEPT !.count = sa.count,
                                                   !.tsStart = sa.tsStart,
                                                   !.tsEnd = sa.tsEnd],
                      ret |-> successP1 /\ successP2 /\ successP3 /\ successF,
                      asserted |-> ~ (successP1 /\ successP2 /\ successP3 /\ successF)]
    IN  Combined(PhaseAccumulator_summarise(sa.p1, ss.p1, sa.count),
                 PhaseAccumulator_summarise(sa.p2, ss.p2, sa.count),
                 PhaseAccumulator_summarise(sa.p3, ss.p3, sa.count),
                 Accumulator_summarise(sa.frequency, "F", ss.frequency, sa.count))

\* bool Report::accumulate(const Sample& sample)
Report_accumulate(sa, sample, t, ndebug) == SampleAccumulator_accumulate(sa, sample, t, ndebug)

\* mutant: summarise sets count back to 0
Report_summarise_clearing(sa, ss, ndebug) ==
    LET Returned(r) == [acc |-> [sa EXCEPT !.count = 0], summary |-> r.summary,
                        ret |-> r.ret, asserted |-> r.asserted]
    IN  Returned(SampleAccumulator_summarise(sa, ss, ndebug))

\* bool Report::summarise(SampleSummary& sampleSummary): acc as the call leaves
\* it, the SampleSummary and the result
Report_summarise(sa, ss, ndebug) ==
    LET Returned(r) == [acc |-> sa, summary |-> r.summary, ret |-> r.ret,
                        asserted |-> r.asserted]
    IN  Returned(SampleAccumulator_summarise(sa, ss, ndebug))

\* uint32_t Report::count()
Report_count(sa) == sa.count

\* void Report::reset(), with t the reading of system_clock::now()
Report_reset(t) == SampleAccumulator_reset(t)

----------------------------------------------------------------------------
(* Calls and their outcomes *)

\* what the caller gets from a call that computed ret and did or did not run
\* into assert(false): the bool, or nothing when the assert ends the process
Outcome(ret, asserted) ==
    IF asserted /\ ~ NDEBUG THEN "abort" ELSE IF ret THEN "true" ELSE "false"

Snapshot ==
    [acc |-> acc, summary |-> summary, phaseAcc |-> phaseAcc, rep |-> rep,
     sampleSummary |-> sampleSummary, reportPeriod |-> reportPeriod,
     reportTime |-> reportTime, reportQueue |-> reportQueue,
     op |-> last.op, val |-> last.val]

NoCall == [op |-> "none", val |-> NaN, count |-> 0, ret |-> "none"]

NoRound == [n |-> NaN, p |-> 0, res |-> NaN]

\* main() entering the setup loop: pc is the index in SetupSteps of the step
\* to run next, and past the last one main() is in appEntity.waitForever();
\* at is "call" before the call of that step, "wait" while the call blocks
\* for its response and "sleep" in the sleep_for that follows its failure;
\* done lists the steps that main() has got past in this pass of the loop, sleeps
\* the sleeps of its activation retries and slept what the last step slept,
\* all in seconds; aePath is the local of the pass that discover_in_ae fills
MainStart ==
    [pc |-> 1, at |-> "call", backoffSeconds |-> BACKOFF_DEFAULT_S, done |-> <<>>,
     sleeps |-> <<>>, slept |-> 0, aePath |-> ""]

\* the thread of the notification callback between two notifications; in a
\* handler its pc is "pushing" inside reportQueue.push(summary) and
\* "pushing_path" inside deletionQueue.push(APP_PATH_CONFIG)
CallbackIdle == [pc |-> "idle", pending |-> <<>>, taken |-> FALSE]

\* the two copies of the app in the source tree; the second has the
\* deletion queue, its thread and the Delete request of main()
AppCopies == {"unnamed/part_001", "aos_metering_app.cpp"}

\* TRUE when the copy that is compiled has deletionQueue and its thread
HasDeletion == app = "aos_metering_app.cpp"

\* deletion_queue_thread() entering its loop: pc is "poll" at the test of
\* deletionQueue.empty(), "send" at the call of delete_content_instance and
\* "wait" inside it, in appEntity.getResponse(); path is the local of the
\* loop body, which ends with the call
DeleterStart == [pc |-> "poll", path |-> ""]

\* report_queue_thread() entering its loop: pc is "poll" at the test of
\* reportQueue.empty(), "send" at the call of create_content_instance and
\* "wait" inside it, in appEntity.getResponse(); json is the JSON of the last
\* call and ok what the last call that has returned returned
WorkerStart == [pc |-> "poll", summary |-> SampleSummary_new, json |-> <<>>, ok |-> TRUE]

InitCommon ==
    /\ NDEBUG \in BOOLEAN
    /\ pc = "ready"
    /\ acc = Accumulator_reset
    /\ summary = Summary_new
    /\ phaseAcc = PhaseAccumulator_reset
    /\ last = NoCall
    /\ now = 1
    /\ rep = SampleAccumulator_reset(now)
    /\ sampleSummary = SampleSummary_new
    /\ reportPeriod = REPORT_PERIOD_DEFAULT
    /\ reportTime = 0
    /\ reportQueue = <<>>
    /\ trace = <<>>
    /\ steady = BootTime
    /\ pushed = 0
    /\ main = MainStart
    /\ containerPath = ""
    /\ queueState = [reportQueue |-> "sound", deletionQueue |-> "sound"]
    /\ callback = CallbackIdle
    /\ worker = WorkerStart
    /\ deletionQueue = <<>>
    /\ deleter = DeleterStart
    /\ coap = [queued |-> <<>>, sent |-> <<>>, requests |-> <<>>, phantoms |-> 0,
               deletions |-> 0]
    /\ prev = [acc |-> Accumulator_reset, summary |-> Summary_new,
               phaseAcc |-> PhaseAccumulator_reset, rep |-> SampleAccumulator_reset(1),
               sampleSummary |-> SampleSummary_new,
               reportPeriod |-> REPORT_PERIOD_DEFAULT, reportTime |-> 0,
               reportQueue |-> <<>>, op |-> "none", val |-> NaN]
    /\ accepted = {}
    /\ nOk = 0
    /\ nFail = 0
    /\ calls = 0

----------------------------------------------------------------------------
(* SpecAcc: one derived Accumulator and one Summary *)

Finites(s) == {Fin(x) : x \in s}
Specials == {NaN, HUGE_VAL, NegInf}

\* the finite boundaries of a table
Boundaries(k) == {binBoundaryPtr(k)[i] : i \in 0 .. (HISTOGRAM_BINS - 2)}

\* values offered to the first accumulate of a run: every boundary, values
\* below the first and above the last finite boundary, values inside bins
Probes(k) ==
    Specials \cup Boundaries(k) \cup
    CASE k = "V" -> Finites({204500, 219500, 229900, 260000})
      [] k = "I" -> Finites({0, 125, 290, 150000})
      [] k = "P" -> Finites({-10000500, -1050, 2449, 12000000})
      [] k = "Q" -> Finites({-10000500, -1050, 2449, 12000000})
      [] k = "PF" -> Finites({-1250, -70, 290, 1250})
      [] k = "F" -> Finites({49500, 49990, 50010, 50500})

\* values offered to the later accumulates: sums of these are exact in
\* binary64 (multiples of 0.125)
Pool(k) ==
    Specials \cup
    CASE k = "V" -> Finites({204500, 229000, 230000, 231000})
      [] k = "I" -> Finites({125, 250, 500, 1500})
      [] k = "P" -> Finites({-1500, 0, 2500, 100000})
      [] k = "Q" -> Finites({-1500, 0, 2500, 100000})
      [] k = "PF" -> Finites({-1000, -125, 250, 500})
      [] k = "F" -> Finites({49750, 50000, 50125, 50250})

\* binary64 adds a finite value to this total without rounding error
ExactTotal(t) == t.c = "ninf" \/ (t.c = "fin" /\ t.num % 125 = 0)

\* A finite value is offered only while the sum stays exact: the model adds
\* exactly, binary64 does so for these totals and values.
Inputs(k) ==
    IF calls = 0 THEN Probes(k)
    ELSE IF ExactTotal(acc.total) THEN Pool(k)
    ELSE Specials

\* The counts offered to summarise: any count while the total is exact, and
\* otherwise only those whose quotient binary64 computes without rounding.
Counts == IF ExactTotal(acc.total) THEN 0 .. MaxCount ELSE {0, 1, 2}

InitAcc ==
    /\ InitCommon
    /\ app = "unnamed/part_001"
    /\ kind \in Kinds
    /\ rnd = NoRound

\* acc.accumulate(val)
Accumulate(val) ==
    /\ pc = "ready"
    /\ calls < MaxCalls
    /\ LET r == Accumulator_accumulate(acc, kind, val)
       IN  /\ acc' = r.acc
           /\ last' = [op |-> "accumulate", val |-> val, count |-> 0,
                       ret |-> Outcome(r.ret, FALSE)]
           /\ accepted' = IF r.ret THEN accepted \cup {val} ELSE accepted
           /\ nOk' = IF r.ret THEN nOk + 1 ELSE nOk
    /\ prev' = Snapshot
    /\ calls' = calls + 1
    /\ UNCHANGED <<reportVars, producerVars, NDEBUG, app, pc, kind, summary, phaseAcc,
                   rnd>>

\* acc.summarise(summary, count)
Summarise(count) ==
    /\ pc = "ready"
    /\ calls < MaxCalls
    /\ LET r == Accumulator_summarise(acc, kind, summary, count)
       IN  /\ summary' = r.summary
           /\ last' = [op |-> "summarise", val |-> NaN, count |-> count,
                       ret |-> Outcome(r.ret, r.asserted)]
           /\ pc' = IF r.asserted /\ ~ NDEBUG THEN "aborted" ELSE pc
    /\ prev' = Snapshot
    /\ calls' = calls + 1
    /\ UNCHANGED <<reportVars, producerVars, NDEBUG, app, kind, acc, phaseAcc, rnd,
                   accepted, nOk>>

\* acc.reset()
Reset ==
    /\ pc = "ready"
    /\ calls < MaxCalls
    /\ acc' = Accumulator_reset
    /\ last' = [op |-> "reset", val |-> NaN, count |-> 0, ret |-> "none"]
    /\ prev' = Snapshot
    /\ accepted' = {}
    /\ nOk' = 0
    /\ calls' = calls + 1
    /\ UNCHANGED <<reportVars, producerVars, NDEBUG, app, pc, kind, summary, phaseAcc,
                   rnd>>

\* summary.reset(), on the caller's Summary
SummaryReset ==
    /\ pc = "ready"
    /\ calls < MaxCalls
    /\ summary' = Summary_reset
    /\ last' = [op |-> "summary_reset", val |-> NaN, count |-> 0, ret |-> "none"]
    /\ prev' = Snapshot
    /\ calls' = calls + 1
    /\ UNCHANGED <<reportVars, producerVars, NDEBUG, app, pc, kind, acc, phaseAcc,
                   rnd, accepted, nOk>>

\* summary.histogram.reset(), on the histogram of the caller's Summary
HistogramReset ==
    /\ pc = "ready"
    /\ calls < MaxCalls
    /\ summary' = [summary EXCEPT !.histogram = Histogram_reset]
    /\ last' = [op |-> "histogram_reset", val |-> NaN, count |-> 0, ret |-> "none"]
    /\ prev' = Snapshot
    /\ calls' = calls + 1
    /\ UNCHANGED <<reportVars, producerVars, NDEBUG, app, pc, kind, acc, phaseAcc,
                   rnd, accepted, nOk>>

NextAcc ==
    \/ \E val \in Inputs(kind) : Accumulate(val)
    \/ \E count \in Counts : Summarise(count)
    \/ Reset
    \/ SummaryReset
    \/ HistogramReset

SpecAcc == InitAcc /\ [][NextAcc]_vars

----------------------------------------------------------------------------
(* SpecPhase: one PhaseAccumulator *)

\* the Phase objects offered to PhaseAccumulator::accumulate
Phases ==
    [vrms : {NaN, Fin(229000), Fin(230000)},
     irms : {NaN, Fin(1500)},
     powerActive : {NaN, Fin(-1500)},
     powerReactive : {NaN, Fin(2500)},
     powerFactor : {NaN, HUGE_VAL, Fin(500)}]

InitPhase ==
    /\ InitCommon
    /\ app = "unnamed/part_001"
    /\ kind = "V"
    /\ rnd = NoRound

\* phaseAcc.accumulate(phase)
PhaseAccumulate(phase) ==
    /\ pc = "ready"
    /\ calls < MaxPhaseCalls
    /\ LET r == PhaseAccumulator_accumulate(phaseAcc, phase)
       IN  /\ phaseAcc' = r.acc
           /\ last' = [op |-> "phase_accumulate", val |-> phase, count |-> 0,
                       ret |-> Outcome(r.ret, r.asserted)]
           /\ pc' = IF r.asserted /\ ~ NDEBUG THEN "aborted" ELSE pc
           /\ nOk' = IF r.ret THEN nOk + 1 ELSE nOk
    /\ prev' = Snapshot
    /\ calls' = calls + 1
    /\ UNCHANGED <<reportVars, producerVars, NDEBUG, app, kind, acc, summary, rnd,
                   accepted>>

\* phaseAcc.reset()
PhaseReset ==
    /\ pc = "ready"
    /\ calls < MaxPhaseCalls
    /\ phaseAcc' = PhaseAccumulator_reset
    /\ last' = [op |-> "phase_reset", val |-> NaN, count |-> 0, ret |-> "none"]
    /\ prev' = Snapshot
    /\ nOk' = 0
    /\ calls' = calls + 1
    /\ UNCHANGED <<reportVars, producerVars, NDEBUG, app, pc, kind, acc, summary, rnd,
                   accepted>>

NextPhase ==
    \/ \E phase \in Phases : PhaseAccumulate(phase)
    \/ PhaseReset

SpecPhase == InitPhase /\ [][NextPhase]_vars

----------------------------------------------------------------------------
(* SpecRound: round(n, decimalPlaces) on its own *)

\* the arguments: every multiple of 0.001 up to MaxRound / 1000 in absolute
\* value, and the non-finite doubles
RoundInputs == Specials \cup Finites((-MaxRound) .. MaxRound)

InitRound ==
    /\ InitCommon
    /\ app = "unnamed/part_001"
    /\ kind = "V"
    /\ rnd \in [n : RoundInputs, p : {1, 2}, res : {NaN}]

\* rnd.res = round(rnd.n, rnd.p)
Round ==
    /\ pc = "ready"
    /\ last.op = "none"
    /\ rnd' = [rnd EXCEPT !.res = round(rnd.n, rnd.p)]
    /\ last' = [op |-> "round", val |-> rnd.n, count |-> 0, ret |-> "none"]
    /\ prev' = Snapshot
    /\ calls' = calls + 1
    /\ UNCHANGED <<reportVars, producerVars, NDEBUG, app, pc, kind, acc, summary,
                   phaseAcc, accepted, nOk>>

NextRound == Round

SpecRound == InitRound /\ [][NextRound]_vars

----------------------------------------------------------------------------
(* SpecReport: one Report and one SampleSummary *)

\* Phase(vrms, irms, powerActive, powerReactive, powerFactor)
Phase(v, i, p, q, pf) ==
    [vrms |-> v, irms |-> i, powerActive |-> p, powerReactive |-> q, powerFactor |-> pf]

\* a phase at 230 V
NominalPhase == Phase(Fin(230000), Fin(1500), Fin(2500), Fin(-1500), Fin(500))

\* a sample every value of which finds a bin, with p1.vrms = v
GoodSample(v) ==
    [p1 |-> [NominalPhase EXCEPT !.vrms = v], p2 |-> NominalPhase,
     p3 |-> NominalPhase, frequency |-> Fin(50000)]

\* a sample of which the first phase and the frequency each hold a value that
\* finds no bin
BadSamples ==
    {[GoodSample(Fin(230000)) EXCEPT !.p1.powerActive = NaN, !.frequency = HUGE_VAL]}

\* the Sample objects offered to Report::accumulate
Samples ==
    {GoodSample(Fin(229000)), GoodSample(Fin(230000)), GoodSample(Fin(231000))}
        \cup BadSamples

InitReport ==
    /\ InitCommon
    /\ app = "unnamed/part_001"
    /\ kind = "V"
    /\ rnd = NoRound

\* report.accumulate(sample)
ReportAccumulate(sample) ==
    /\ pc = "ready"
    /\ calls < MaxReportCalls
    /\ \E r \in {Report_accumulate(rep, sample, now, NDEBUG)} :
           /\ rep' = r.acc
           /\ last' = [op |-> "report_accumulate", val |-> sample, count |-> 0,
                       ret |-> Outcome(r.ret, r.asserted)]
           /\ pc' = IF r.asserted /\ ~ NDEBUG THEN "aborted" ELSE pc
           /\ nOk' = IF r.ret THEN nOk + 1 ELSE nOk
           /\ nFail' = IF r.ret THEN nFail ELSE nFail + 1
    /\ prev' = Snapshot
    /\ calls' = calls + 1
    /\ UNCHANGED <<sampleSummary, now, producerVars, NDEBUG, app, kind, acc, summary,
                   phaseAcc, rnd, accepted>>

\* report.summarise(ss), where ss is a newly constructed SampleSummary or the
\* one the caller already holds
ReportSummarise(ss) ==
    /\ pc = "ready"
    /\ calls < MaxReportCalls
    /\ \E r \in {Report_summarise(rep, ss, NDEBUG)} :
           /\ rep' = r.acc
           /\ sampleSummary' = r.summary
           /\ last' = [op |-> "report_summarise", val |-> ss, count |-> Report_count(rep),
                       ret |-> Outcome(r.ret, r.asserted)]
           /\ pc' = IF r.asserted /\ ~ NDEBUG THEN "aborted" ELSE pc
    /\ prev' = Snapshot
    /\ calls' = calls + 1
    /\ UNCHANGED <<now, nFail, producerVars, NDEBUG, app, kind, acc, summary,
                   phaseAcc, rnd, accepted, nOk>>

\* report.reset()
ReportReset ==
    /\ pc = "ready"
    /\ calls < MaxReportCalls
    /\ rep' = Report_reset(now)
    /\ last' = [op |-> "report_reset", val |-> NaN, count |-> 0, ret |-> "none"]
    /\ prev' = Snapshot
    /\ nOk' = 0
    /\ nFail' = 0
    /\ calls' = calls + 1
    /\ UNCHANGED <<sampleSummary, now, producerVars, NDEBUG, app, pc, kind, acc,
                   summary, phaseAcc, rnd, accepted>>

\* time passes between two calls
Tick ==
    /\ pc = "ready"
    /\ calls < MaxReportCalls
    /\ now < MaxNow
    /\ now' = now + 1
    /\ last' = [op |-> "tick", val |-> NaN, count |-> 0, ret |-> "none"]
    /\ prev' = Snapshot
    /\ calls' = calls + 1
    /\ UNCHANGED <<rep, sampleSummary, nFail, producerVars, NDEBUG, app, pc, kind,
                   acc, summary, phaseAcc, rnd, accepted, nOk>>

\* sampleSummary.reset(), on the caller's SampleSummary
SampleSummaryReset ==
    /\ pc = "ready"
    /\ calls < MaxReportCalls
    /\ sampleSummary' = SampleSummary_reset(now)
    /\ last' = [op |-> "sample_summary_reset", val |-> NaN, count |-> 0, ret |-> "none"]
    /\ prev' = Snapshot
    /\ calls' = calls + 1
    /\ UNCHANGED <<rep, now, nFail, producerVars, NDEBUG, app, pc, kind, acc, summary,
                   phaseAcc, rnd, accepted, nOk>>

\* sampleSummary.p1.reset(), .p2.reset() or .p3.reset(), on one phase of the
\* caller's SampleSummary
PhaseSummaryReset(ph) ==
    /\ pc = "ready"
    /\ calls < MaxReportCalls
    /\ sampleSummary' = [sampleSummary EXCEPT ![ph] = PhaseSummary_reset]
    /\ last' = [op |-> "phase_summary_reset", val |-> NaN, count |-> 0, ret |-> "none"]
    /\ prev' = Snapshot
    /\ calls' = calls + 1
    /\ UNCHANGED <<rep, now, nFail, producerVars, NDEBUG, app, pc, kind, acc, summary,
                   phaseAcc, rnd, accepted, nOk>>

\* sampleSummary.frequency.reset(), on the frequency Summary of the caller's
\* SampleSummary
FrequencySummaryReset ==
    /\ pc = "ready"
    /\ calls < MaxReportCalls
    /\ sampleSummary' = [sampleSummary EXCEPT !.frequency = Summary_reset]
    /\ last' = [op |-> "frequency_summary_reset", val |-> NaN, count |-> 0, ret |-> "none"]
    /\ prev' = Snapshot
    /\ calls' = calls + 1
    /\ UNCHANGED <<rep, now, nFail, producerVars, NDEBUG, app, pc, kind, acc, summary,
                   phaseAcc, rnd, accepted, nOk>>

\* the phases whose PhaseSummary the caller resets on its own: the members
\* p1, p2 and p3 of SampleSummary
ResetPhases == {"p1", "p2", "p3"}

NextReport ==
    \/ \E sample \in Samples : ReportAccumulate(sample)
    \/ \E ss \in {SampleSummary_new, sampleSummary} : ReportSummarise(ss)
    \/ ReportReset
    \/ SampleSummaryReset
    \/ \E ph \in ResetPhases : PhaseSummaryReset(ph)
    \/ FrequencySummaryReset
    \/ Tick

SpecReport == InitReport /\ [][NextReport]_vars

----------------------------------------------------------------------------
(* SpecProducer: the notification handlers of the app, which feed the      *)
(* global Report and queue its summaries                                   *)

\* an xsd optional element that is set, as isSet() and getValue() show it
Some(v) == [set |-> TRUE, value |-> v]

\* the elements of a PowerQualityData record that Sample reads
PhaseElements(s) ==
    {"voltage" \o s, "current" \o s, "activePower" \o s, "reactivePower" \o s,
     "powerFactor" \o s}

PowerQualityFields ==
    PhaseElements("A") \cup PhaseElements("B") \cup PhaseElements("C") \cup {"frequency"}

\* Phase::set called with the values of the five elements of phase s
Phase_set(pq, s) ==
    Phase(pq["voltage" \o s].value, pq["current" \o s].value,
          pq["activePower" \o s].value, pq["reactivePower" \o s].value,
          pq["powerFactor" \o s].value)

\* Sample::set(powerQualityData) on a record whose elements are all set
Sample_set(powerQualityData) ==
    [p1 |-> Phase_set(powerQualityData, "A"),
     p2 |-> Phase_set(powerQualityData, "B"),
     p3 |-> Phase_set(powerQualityData, "C"),
     frequency |-> powerQualityData.frequency.value]

\* Sample(): each Phase reset to 0.0, frequency 0.0
Sample_new ==
    [p1 |-> Phase(Fin(0), Fin(0), Fin(0), Fin(0), Fin(0)),
     p2 |-> Phase(Fin(0), Fin(0), Fin(0), Fin(0), Fin(0)),
     p3 |-> Phase(Fin(0), Fin(0), Fin(0), Fin(0), Fin(0)),
     frequency |-> Fin(0)]

\* spoofSample(sample)
spoofSample(sample) ==
    [sample EXCEPT !.p1.vrms = Fin(EXPECTED_VOLTAGE * 1000),
                   !.frequency = Fin(EXPECTED_FREQUENCY * 1000)]

\* a + b in a 32-bit signed int; an overflow wraps, as the add instruction of
\* a two's complement machine does
Int32Add(a, b) ==
    IF b > 0 /\ a > INT32_MAX - b
    THEN ((a - 1073741824) - 1073741824) + ((b - 1073741824) - 1073741824)
    ELSE IF b < 0 /\ a < (-INT32_MAX - 1) - b
    THEN ((a + 1073741824) + 1073741824) + ((b + 1073741824) + 1073741824)
    ELSE a + b

\* x * 1000 in a 32-bit signed int, for |x| below 4294967; an overflow wraps,
\* as the multiply instruction of a two's complement machine does
Int32Times1000(x) ==
    LET half == x * 500
    IN  IF half > 1073741823 THEN ((half - 1073741824) - 1073741824) * 2
        ELSE IF half < -1073741824 THEN ((half + 1073741824) + 1073741824) * 2
        ELSE half * 2

\* the globals of the app that the handlers read and write, and what the
\* handler has done so far
Globals ==
    [report |-> rep, reportPeriod |-> reportPeriod, reportTime |-> reportTime,
     reportQueue |-> reportQueue, trace |-> <<>>, aborted |-> FALSE,
     accumulated |-> FALSE, pushed |-> pushed]

\* parseReportInterval(seconds), steady_clock reading timeNow
parseReportInterval(g, seconds, timeNow) ==
    IF seconds < 15 \/ seconds > 60 * 60 * 24 * 31
    THEN g
    ELSE LET shifted == g.reportTime + Int32Times1000(seconds - g.reportPeriod)
         IN  [g EXCEPT !.reportTime = IF shifted < timeNow THEN timeNow ELSE shifted,
                       !.reportPeriod = seconds]

\* the first block of parseMeterSvcData: if the time to send a report has
\* arrived, queue a summary and reset the report; clock is the system_clock
\* reading that report.reset() takes
reportIfDue(g, timeNow, clock, ndebug) ==
    LET Queued(r) ==
            IF r.asserted /\ ~ ndebug
            THEN [g EXCEPT !.trace = <<"summarise">>, !.aborted = TRUE]
            ELSE LET next == g.reportTime + Int32Times1000(g.reportPeriod)
                 IN  [g EXCEPT !.report = Report_reset(clock),
                               !.reportQueue = Append(g.reportQueue, r.summary),
                               !.pushed = g.pushed + r.summary.count,
                               !.reportTime = IF next <= timeNow
                                              THEN timeNow + Int32Times1000(g.reportPeriod)
                                              ELSE next,
                               !.trace = <<"summarise", "reset">>]
    IN  IF timeNow >= g.reportTime
        THEN IF g.reportTime <= 0
             THEN [g EXCEPT !.reportTime =
                                timeNow + Int32Add(Int32Times1000(g.reportPeriod), -500),
                            !.report = Report_reset(clock),
                            !.trace = <<"reset">>]
             ELSE Queued(Report_summarise(g.report, SampleSummary_new, ndebug))
        ELSE g

\* report.accumulate(sample) as the second block of parseMeterSvcData calls it
accumulateSample(g, sample, clock, ndebug) ==
    LET Accumulated(r) ==
            [g EXCEPT !.report = r.acc,
                      !.trace = Append(g.trace, "accumulate"),
                      !.aborted = r.asserted /\ ~ ndebug,
                      !.accumulated = r.ret]
    IN  Accumulated(Report_accumulate(g.report, sample, clock, ndebug))

\* the second block of parseMeterSvcData: build a Sample and accumulate it.
\* unnamed/part_001 does so only if the powerQuality element is set;
\* aos_metering_app.cpp has no isSet() test before
\* sample.set(meterSvcData.powerQuality.getValue()), and its notifications
\* (MeterSvcDatas) all carry the element
parseSample(g, meterSvcData, clock, ndebug) ==
    IF g.aborted \/ ~ (SPOOF_METER \/ meterSvcData.powerQuality.set)
    THEN g
    ELSE accumulateSample(g, IF SPOOF_METER THEN spoofSample(Sample_new)
                             ELSE Sample_set(meterSvcData.powerQuality.value),
                          clock, ndebug)

\* parseMeterSvcData(meterSvcData): timeNow is its reading of steady_clock,
\* clock the reading of system_clock that report.reset() takes and later the
\* one that report.accumulate() takes after it
parseMeterSvcData(g, meterSvcData, timeNow, clock, later, ndebug) ==
    parseSample(reportIfDue(g, timeNow, clock, ndebug), meterSvcData, later, ndebug)

\* a PowerQualityData record with every element set, phase A at v volts
CompleteRecord(v) ==
    [f \in PowerQualityFields |->
        IF f = "voltageA" THEN Some(v)
        ELSE IF f = "frequency" THEN Some(Fin(50000))
        ELSE IF f \in {"voltageB", "voltageC"} THEN Some(Fin(230000))
        ELSE IF f \in {"currentA", "currentB", "currentC"} THEN Some(Fin(1500))
        ELSE IF f \in {"activePowerA", "activePowerB", "activePowerC"}
             THEN Some(Fin(2500))
        ELSE IF f \in {"reactivePowerA", "reactivePowerB", "reactivePowerC"}
             THEN Some(Fin(-1500))
        ELSE Some(Fin(500))]

\* the MeterSvcData objects of the notifications: two power-quality records
\* with every element set and, for unnamed/part_001, one that carries
\* summations only. Sample::set and, in aos_metering_app.cpp,
\* parseMeterSvcData call getValue() on elements without a test of isSet() or
\* empty(); getValue() belongs to the xsd library, which is not in the
\* sources, so a notification that leads to such a call on an unset element
\* is not among these
MeterSvcDatas ==
    {[powerQuality |-> Some(CompleteRecord(v)), summations |-> FALSE] :
        v \in {Fin(230000), Fin(231000)}}
      \cup (IF HasDeletion THEN {}
            ELSE {[powerQuality |-> [set |-> FALSE, value |-> CompleteRecord(NaN)],
                   summations |-> TRUE]})

\* the reportInterval values of the notifications, in seconds
ReportIntervals == {10, 15}

\* the time between two notifications, in ms
Delays == {1000, 16000}

\* the time that system_clock advances between the reading of report.reset()
\* and the reading of report.accumulate() in one call of parseMeterSvcData,
\* in ms
ClockLags == {0, 1}

InitProducer ==
    /\ InitCommon
    /\ app \in AppCopies
    /\ kind = "V"
    /\ rnd = NoRound

\* notificationCallback with metersvc data, delay ms after the previous one;
\* system_clock advances by lag ms between the two readings of the handler
NotifyMeterSvcData(meterSvcData, delay, lag) ==
    /\ pc = "ready"
    /\ calls < MaxProducerCalls
    /\ \E g \in {parseMeterSvcData(Globals, meterSvcData, steady + delay,
                                   now + delay, now + delay + lag, NDEBUG)} :
           /\ rep' = g.report
           /\ reportTime' = g.reportTime
           /\ reportQueue' = g.reportQueue
           /\ pushed' = g.pushed
           /\ trace' = g.trace
           /\ pc' = IF g.aborted THEN "aborted" ELSE pc
           /\ nOk' = IF g.accumulated THEN nOk + 1 ELSE nOk
           /\ last' = [op |-> "parseMeterSvcData", val |-> meterSvcData, count |-> 0,
                       ret |-> IF g.aborted THEN "abort" ELSE "none"]
    /\ steady' = steady + delay
    /\ now' = now + delay + lag
    /\ prev' = Snapshot
    /\ calls' = calls + 1
    /\ UNCHANGED <<reportPeriod, sampleSummary, nFail, appVars, NDEBUG, app, kind,
                   acc, summary, phaseAcc, rnd, accepted>>

\* notificationCallback with a report interval, delay ms after the previous
\* one; aos_metering_app.cpp queues the deletion of the config content
\* instance before it calls parseReportInterval
NotifyReportInterval(seconds, delay) ==
    /\ pc = "ready"
    /\ calls < MaxProducerCalls
    /\ \E g \in {parseReportInterval(Globals, seconds, steady + delay)} :
           /\ reportTime' = g.reportTime
           /\ reportPeriod' = g.reportPeriod
    /\ deletionQueue' = IF HasDeletion THEN Append(deletionQueue, APP_PATH_CONFIG)
                        ELSE deletionQueue
    /\ coap' = IF HasDeletion THEN [coap EXCEPT !.deletions = @ + 1] ELSE coap
    /\ trace' = <<>>
    /\ last' = [op |-> "parseReportInterval", val |-> seconds, count |-> 0,
                ret |-> "none"]
    /\ steady' = steady + delay
    /\ now' = now + delay
    /\ prev' = Snapshot
    /\ calls' = calls + 1
    /\ UNCHANGED <<rep, reportQueue, pushed, sampleSummary, nFail, main, containerPath,
                   queueState, callback, worker, deleter, NDEBUG, app, pc, kind, acc,
                   summary, phaseAcc, rnd, accepted, nOk>>

NextProducer ==
    \/ \E meterSvcData \in MeterSvcDatas, delay \in Delays, lag \in ClockLags :
           NotifyMeterSvcData(meterSvcData, delay, lag)
    \/ \E seconds \in ReportIntervals, delay \in Delays :
           NotifyReportInterval(seconds, delay)

SpecProducer == InitProducer /\ [][NextProducer]_vars

----------------------------------------------------------------------------
(* SpecInterval: the producer under report intervals at and beyond both    *)
(* ends of the range that parseReportInterval accepts                      *)

\* the reportInterval values of the notifications, in seconds
IntervalSeconds == {14, 15, 60 * 60 * 24 * 31, 60 * 60 * 24 * 31 + 1}

NextInterval ==
    \/ \E seconds \in IntervalSeconds, delay \in Delays :
           NotifyReportInterval(seconds, delay)
    \/ \E delay \in Delays, lag \in ClockLags :
           NotifyMeterSvcData([powerQuality |-> Some(CompleteRecord(Fin(230000))),
                               summations |-> FALSE], delay, lag)

SpecInterval == InitProducer /\ [][NextInterval]_vars

----------------------------------------------------------------------------
(* SpecSetup: the setup loop of main() *)

\* the steps of one pass of the setup loop, in order; aos_metering_app.cpp
\* deletes the config content instance after the first subscription
SetupSteps ==
    IF HasDeletion
    THEN <<"activate", "create_subscription(metersvc)", "delete_content_instance",
           "create_meter_read_policy", "create_container",
           "create_subscription(local)", "discover_in_ae", "discover_container">>
    ELSE <<"activate", "create_subscription(metersvc)", "create_meter_read_policy",
           "create_container", "create_subscription(local)", "discover_in_ae",
           "discover_container">>

\* the reasons appEntity.getActivationFailureReason() gives, and "none" for an
\* activation that succeeds
ActivationResults == {"none", "Timeout", "NotRegistered", "Other"}

\* the response status codes of the requests
StatusCodes == {"CREATED", "CONFLICT", "OK", "NOT_FOUND", "DELETED"}

\* delete_content_instance(path) returns true on a response with this status
Deleted(status) == status = "DELETED" \/ status = "NOT_FOUND"

\* the paths that the discovery responses list first: the IN-AE and its
\* container
DiscoveredAePath == "/in-cse/in-ae"
DiscoveredPath == "/in-cse/in-ae/reports"

\* the primitive content of the response to the discovery of a step, as the
\* JSON text holds it: without the member m2m:uril, with an empty list under
\* it, with a list whose first path is empty, and with the path looked for
DiscoveryContents(step) ==
    {[present |-> FALSE, uril |-> <<>>],
     [present |-> TRUE, uril |-> <<>>],
     [present |-> TRUE, uril |-> <<"">>],
     [present |-> TRUE,
      uril |-> <<IF step = "discover_in_ae" THEN DiscoveredAePath
                 ELSE DiscoveredPath>>]}

\* the JSON library throws in the body of a discovery: json.at("m2m:uril")
\* on a content without that member, in both functions, and
\* json.at("m2m:uril")[0].get<std::string>() on an empty list, whose element
\* 0 is null, in discover_container; discover_in_ae tests the size of the
\* list first
DiscoveryThrows(step, status, content) ==
    /\ step \in {"discover_in_ae", "discover_container"}
    /\ status = "OK"
    /\ \/ ~ content.present
       \/ step = "discover_container" /\ content.uril = <<>>

\* the return value of a setup step whose request got the response status
\* and, for a discovery, the content; unnamed/part_001 catches what the JSON
\* library throws and returns false
StepSucceeds(step, status, content) ==
    IF step = "discover_in_ae"
    THEN /\ status = "OK"
         /\ ~ DiscoveryThrows(step, status, content)
         /\ Len(content.uril) >= 1
    ELSE IF step = "discover_container"
    THEN /\ status = "OK"
         /\ ~ DiscoveryThrows(step, status, content)
         /\ content.uril[1] # ""
    ELSE IF step = "delete_content_instance"
    THEN Deleted(status)
    ELSE status = "CREATED" \/ status = "CONFLICT"

\* mutant: the backoff doubles once more
Backoff_le(backoffSeconds) ==
    IF backoffSeconds <= 16 * 60 THEN backoffSeconds * 2 ELSE backoffSeconds

\* the backoff after a sleep: if (backoffSeconds < minutes{16}) backoffSeconds *= 2
Backoff(backoffSeconds) ==
    IF backoffSeconds < 16 * 60 THEN backoffSeconds * 2 ELSE backoffSeconds

\* a request as appEntity.sendRequest gets it: the thread that calls, the
\* operation, the To path and the resource type ("-" for none)
Request(thread, op, to, ty) == [thread |-> thread, op |-> op, to |-> to, ty |-> ty]

\* the request that the function of a setup step sends
StepRequest(step) ==
    IF step = "create_subscription(metersvc)"
    THEN Request("main", "Create", "./metersvc/reads", "subscription")
    ELSE IF step = "delete_content_instance"
    THEN Request("main", "Delete", APP_PATH_CONFIG, "-")
    ELSE IF step = "create_meter_read_policy"
    THEN Request("main", "Create", "./metersvc/policies", "contentInstance")
    ELSE IF step = "create_container"
    THEN Request("main", "Create", ".", "container")
    ELSE IF step = "create_subscription(local)"
    THEN Request("main", "Create", "./meterSummary", "subscription")
    ELSE IF step = "discover_in_ae"
    THEN Request("main", "Retrieve", "/PN_CSE", "-")
    ELSE Request("main", "Retrieve", main.aePath, "-")

\* main() enters the call of the next step: appEntity.activate(), or a
\* function that sends a request and blocks in appEntity.getResponse();
\* discover_container clears containerPath before it sends
SetupCall ==
    /\ pc = "ready"
    /\ main.at = "call"
    /\ main.pc \in 1 .. Len(SetupSteps)
    /\ main' = [main EXCEPT !.at = "wait"]
    /\ containerPath' = IF SetupSteps[main.pc] = "discover_container"
                        THEN "" ELSE containerPath
    /\ coap' = IF main.pc = 1 THEN coap
               ELSE [coap EXCEPT !.requests = Append(@, StepRequest(SetupSteps[main.pc]))]
    /\ UNCHANGED <<reportVars, reportPeriod, reportTime, reportQueue, deletionQueue,
                   trace, steady, pushed, queueState, callback, worker, deleter,
                   NDEBUG, app, pc, kind, acc, summary, phaseAcc, rnd, last, prev,
                   accepted, nOk, calls>>

\* appEntity.activate() returns in while (!appEntity.activate()): on success
\* the loop ends, on Timeout or NotRegistered it calls again at once, and on
\* any other reason main() enters sleep_for(backoffSeconds)
Activate(reason) ==
    /\ pc = "ready"
    /\ calls < MaxSetupSteps
    /\ main.pc = 1
    /\ main.at = "wait"
    /\ main' = IF reason = "none"
               THEN [main EXCEPT !.pc = 2, !.at = "call", !.done = <<SetupSteps[1]>>,
                                 !.slept = 0]
               ELSE IF reason # "Timeout" /\ reason # "NotRegistered"
               THEN [main EXCEPT !.at = "sleep",
                                 !.sleeps = Append(@, main.backoffSeconds),
                                 !.slept = main.backoffSeconds]
               ELSE [main EXCEPT !.at = "call", !.slept = 0]
    /\ last' = [op |-> SetupSteps[1], val |-> reason, count |-> main.backoffSeconds,
                ret |-> IF reason = "none" THEN "true" ELSE "false"]
    /\ calls' = calls + 1
    /\ UNCHANGED <<reportVars, reportPeriod, reportTime, reportQueue, deletionQueue,
                   trace, steady, pushed, containerPath, queueState, callback, worker,
                   deleter, coap, NDEBUG, app, pc, kind, acc, summary, phaseAcc, rnd,
                   prev, accepted, nOk>>

\* the response of the step's request arrives and its if is taken: on success
\* main() goes on to the next step, and after the last one it breaks and
\* calls appEntity.waitForever(); on failure it enters
\* sleep_for(BACKOFF_DEFAULT_S); discover_in_ae stores the path it found in
\* aePath and discover_container in containerPath; what
\* delete_content_instance returns is not tested. In aos_metering_app.cpp
\* the discoveries have no try block: what the JSON library throws leaves
\* discover_in_ae or discover_container and then main(), no handler is found
\* and the process ends
SetupStep(status, content) ==
    /\ pc = "ready"
    /\ calls < MaxSetupSteps
    /\ main.pc \in 2 .. Len(SetupSteps)
    /\ main.at = "wait"
    /\ content \in DiscoveryContents(SetupSteps[main.pc])
    /\ \E ok \in {StepSucceeds(SetupSteps[main.pc], status, content)},
          uncaught \in {HasDeletion
                           /\ DiscoveryThrows(SetupSteps[main.pc], status, content)} :
           /\ pc' = IF uncaught THEN "terminated" ELSE pc
           /\ main' = IF uncaught
                      THEN main
                      ELSE IF ok \/ SetupSteps[main.pc] = "delete_content_instance"
                      THEN [main EXCEPT !.pc = main.pc + 1, !.at = "call",
                                        !.done = Append(@, SetupSteps[main.pc]),
                                        !.slept = 0,
                                        !.aePath =
                                            IF SetupSteps[main.pc] = "discover_in_ae"
                                            THEN content.uril[1] ELSE @]
                      ELSE [main EXCEPT !.at = "sleep", !.slept = BACKOFF_DEFAULT_S]
           /\ containerPath' = IF SetupSteps[main.pc] = "discover_container" /\ ok
                               THEN content.uril[1] ELSE containerPath
           /\ last' = [op |-> SetupSteps[main.pc], val |-> status, count |-> 0,
                       ret |-> IF uncaught THEN "throw"
                               ELSE IF ok THEN "true" ELSE "false"]
    /\ calls' = calls + 1
    /\ UNCHANGED <<reportVars, reportPeriod, reportTime, reportQueue, deletionQueue,
                   trace, steady, pushed, queueState, callback, worker, deleter, coap,
                   NDEBUG, app, kind, acc, summary, phaseAcc, rnd, prev, accepted,
                   nOk>>

\* the sleep_for ends: in the activation loop the backoff doubles and
\* activate() is called again; after a failed step, continue starts the next
\* pass of while (true) with a new backoffSeconds
SleepDone ==
    /\ pc = "ready"
    /\ main.at = "sleep"
    /\ main' = IF main.pc = 1
               THEN [main EXCEPT !.at = "call", !.backoffSeconds = Backoff(@)]
               ELSE [MainStart EXCEPT !.slept = main.slept]
    /\ UNCHANGED <<reportVars, reportPeriod, reportTime, reportQueue, deletionQueue,
                   trace, steady, pushed, containerPath, queueState, callback, worker,
                   deleter, coap, NDEBUG, app, pc, kind, acc, summary, phaseAcc, rnd,
                   last, prev, accepted, nOk, calls>>

NextSetup ==
    \/ SetupCall
    \/ \E reason \in ActivationResults : Activate(reason)
    \/ \E status \in StatusCodes,
          content \in UNION {DiscoveryContents(step) :
                                step \in {"discover_in_ae", "discover_container"}} :
           SetupStep(status, content)
    \/ SleepDone

SpecSetup == InitProducer /\ [][NextSetup]_vars

----------------------------------------------------------------------------
(* SpecThreads: the notification callback and report_queue_thread, which   *)
(* share reportQueue, in the build of unnamed/part_001; SpecDeletion: the  *)
(* two and deletion_queue_thread, which shares deletionQueue with the      *)
(* callback, in the build of aos_metering_app.cpp                          *)

\* mutant: max is emitted before min
Summary_json_maxfirst(s) ==
    << <<"avg", s.avg>>, <<"max", s.max>>, <<"min", s.min>>,
       <<"h", [i \in 1 .. HISTOGRAM_BINS |-> s.histogram[i - 1]]>> >>

\* Summary::json: an ordered_json object keeps its keys in the order of their
\* first assignment, so the object is the sequence of its <<key, value>> pairs
Summary_json(s) ==
    << <<"avg", s.avg>>, <<"min", s.min>>, <<"max", s.max>>,
       <<"h", [i \in 1 .. HISTOGRAM_BINS |-> s.histogram[i - 1]]>> >>

\* PhaseSummary::json
PhaseSummary_json(ps) ==
    << <<"v", Summary_json(ps.vrms)>>, <<"i", Summary_json(ps.irms)>>,
       <<"p", Summary_json(ps.powerActive)>>, <<"q", Summary_json(ps.powerReactive)>>,
       <<"pf", Summary_json(ps.powerFactor)>> >>

\* what a read of memory that the program has not written yields, for a
\* counter or a time in ms and for a double: the value differs from run to
\* run, and these two stand for whatever it is; neither is a value that the
\* program computes, so a read that yields one equals no summary pushed
Indeterminate == -1
IndeterminateDouble == [c |-> "indeterminate", num |-> 0, den |-> 1]

\* a std::string read from such memory
IndeterminatePath == "(indeterminate)"

\* duration_cast<seconds> of a time since the epoch given in ms
EpochSeconds(t) == IF t = Indeterminate THEN Indeterminate ELSE t \div 1000

\* SampleSummary::json
SampleSummary_json(ss) ==
    << <<"p", <<PhaseSummary_json(ss.p1), PhaseSummary_json(ss.p2),
                PhaseSummary_json(ss.p3)>> >>,
       <<"f", Summary_json(ss.frequency)>>,
       <<"n", ss.count>>,
       <<"ts", EpochSeconds(ss.tsStart)>>,
       <<"te", EpochSeconds(ss.tsEnd)>> >>

\* the response status codes of a content instance creation
SendStatusCodes == {"CREATED", "NOT_FOUND"}

\* a Summary and a SampleSummary read from memory that the program has not
\* written: a queue node that is freed, not yet filled or not a node at all
IndeterminateSummary ==
    [histogram |-> [i \in Bins |-> Indeterminate], avg |-> IndeterminateDouble,
     min |-> IndeterminateDouble, max |-> IndeterminateDouble]

IndeterminateSampleSummary ==
    [p1 |-> [f \in FieldSet |-> IndeterminateSummary],
     p2 |-> [f \in FieldSet |-> IndeterminateSummary],
     p3 |-> [f \in FieldSet |-> IndeterminateSummary],
     frequency |-> IndeterminateSummary,
     count |-> Indeterminate, tsStart |-> Indeterminate, tsEnd |-> Indeterminate]

\* what a read of the queue element that reportQueue.push(summary) is still
\* copying can yield: nothing of the summary yet, or its phase and frequency
\* members but not yet count, tsStart and tsEnd
TornCopies(s) ==
    {IndeterminateSampleSummary,
     [s EXCEPT !.count = Indeterminate, !.tsStart = Indeterminate,
               !.tsEnd = Indeterminate]}

\* the summary that the handler with outcome g pushes
PushedSummary(g) == g.reportQueue[Len(g.reportQueue)]

\* the summaries pushed so far, the one whose push is in progress included
Pushes ==
    IF callback.pc = "pushing"
    THEN Append(coap.queued, PushedSummary(callback.pending[1]))
    ELSE coap.queued

RECURSIVE SubSequences(_)
\* the sequences that keep some elements of q, in the order of q
SubSequences(q) ==
    IF q = <<>> THEN {<<>>}
    ELSE LET rest == SubSequences(Tail(q))
         IN  rest \cup {<<Head(q)>> \o t : t \in rest}

\* q without its i-th element
RemoveAt(q, i) == SubSeq(q, 1, i - 1) \o SubSeq(q, i + 1, Len(q))

\* the elements that front() can yield and what pop() can leave of the
\* queue, as <<index, rest>>: the first element and the others behind it; once
\* the queue is broken, any element, with any of the others lost
Fronts ==
    IF queueState.reportQueue = "broken"
    THEN UNION {{<<i, rest>> : rest \in SubSequences(RemoveAt(reportQueue, i))} :
                    i \in 1 .. Len(reportQueue)}
    ELSE {<<1, Tail(reportQueue)>>}

\* notificationCallback with metersvc data, delay ms after the previous one,
\* up to its reportQueue.push(summary) if it reports, and to its end if not;
\* system_clock advances by lag ms between the two readings of the handler
CallbackEnter(meterSvcData, delay, lag) ==
    /\ pc = "ready"
    /\ callback.pc = "idle"
    /\ calls < MaxProducerCalls
    /\ \E g \in {parseMeterSvcData(Globals, meterSvcData, steady + delay,
                                   now + delay, now + delay + lag, NDEBUG)} :
           IF Len(g.reportQueue) > Len(reportQueue)
           THEN /\ callback' = [pc |-> "pushing", pending |-> <<g, meterSvcData>>,
                                taken |-> FALSE]
                /\ UNCHANGED <<rep, reportTime, pushed, trace, pc, nOk, last>>
           ELSE /\ rep' = g.report
                /\ reportTime' = g.reportTime
                /\ pushed' = g.pushed
                /\ trace' = g.trace
                /\ pc' = IF g.aborted THEN "aborted" ELSE pc
                /\ nOk' = IF g.accumulated THEN nOk + 1 ELSE nOk
                /\ last' = [op |-> "parseMeterSvcData", val |-> meterSvcData,
                            count |-> 0, ret |-> IF g.aborted THEN "abort" ELSE "none"]
                /\ UNCHANGED callback
    /\ steady' = steady + delay
    /\ now' = now + delay + lag
    /\ prev' = Snapshot
    /\ calls' = calls + 1
    /\ UNCHANGED <<reportQueue, deletionQueue, reportPeriod, sampleSummary, nFail,
                   main, containerPath, queueState, worker, deleter, coap, NDEBUG,
                   app, kind, acc, summary, phaseAcc, rnd, accepted>>

\* mutant: the handler sends the summary itself instead of queueing it
CallbackPushed_sending ==
    /\ pc = "ready"
    /\ callback.pc = "pushing"
    /\ \E g \in {callback.pending[1]} :
           /\ rep' = g.report
           /\ reportTime' = g.reportTime
           /\ pushed' = g.pushed
           /\ trace' = g.trace
           /\ pc' = IF g.aborted THEN "aborted" ELSE pc
           /\ nOk' = IF g.accumulated THEN nOk + 1 ELSE nOk
           /\ last' = [op |-> "parseMeterSvcData", val |-> callback.pending[2],
                       count |-> 0, ret |-> IF g.aborted THEN "abort" ELSE "none"]
           /\ coap' = [coap EXCEPT
                         !.sent = Append(@, PushedSummary(g)),
                         !.requests = Append(@, Request("callback", "Create",
                                                        containerPath,
                                                        "contentInstance"))]
    /\ callback' = CallbackIdle
    /\ UNCHANGED <<reportQueue, deletionQueue, steady, now, prev, calls, reportPeriod,
                   sampleSummary, nFail, main, containerPath, queueState, worker,
                   deleter, NDEBUG, app, kind, acc, summary, phaseAcc, rnd, accepted>>

\* the rest of that handler: the push completes, then report.reset(), the new
\* reportTime and the sample; the element of a push onto a broken queue can
\* land where the worker never looks
CallbackPushed ==
    /\ pc = "ready"
    /\ callback.pc = "pushing"
    /\ \E g \in {callback.pending[1]} :
           /\ rep' = g.report
           /\ reportTime' = g.reportTime
           /\ reportQueue' \in
                  (IF callback.taken THEN {}
                   ELSE {Append(reportQueue, PushedSummary(g))})
                  \cup (IF callback.taken \/ queueState.reportQueue = "broken"
                        THEN {reportQueue} ELSE {})
           /\ pushed' = g.pushed
           /\ trace' = g.trace
           /\ pc' = IF g.aborted THEN "aborted" ELSE pc
           /\ nOk' = IF g.accumulated THEN nOk + 1 ELSE nOk
           /\ last' = [op |-> "parseMeterSvcData", val |-> callback.pending[2],
                       count |-> 0, ret |-> IF g.aborted THEN "abort" ELSE "none"]
           /\ coap' = [coap EXCEPT !.queued = Append(@, PushedSummary(g))]
    /\ callback' = CallbackIdle
    /\ UNCHANGED <<steady, now, prev, calls, reportPeriod, sampleSummary, nFail, main,
                   containerPath, queueState, worker, deletionQueue, deleter, NDEBUG,
                   app, kind, acc, summary, phaseAcc, rnd, accepted>>

\* report_queue_thread at reportQueue.empty(): sleep a second and test again,
\* or take the front element; a pop that runs while the handler is inside
\* reportQueue.push(summary) leaves the queue broken, since no lock orders
\* the two and both write the bookkeeping of the queue; front() and pop() of
\* a broken queue can pass over elements and lose them
WorkerPoll ==
    /\ pc = "ready"
    /\ worker.pc = "poll"
    /\ IF reportQueue = <<>>
       THEN UNCHANGED <<worker, reportQueue, queueState>>
       ELSE /\ \E front \in Fronts :
                   /\ worker' = [worker EXCEPT !.pc = "send",
                                               !.summary = reportQueue[front[1]]]
                   /\ reportQueue' = front[2]
            /\ queueState' = IF callback.pc = "pushing"
                              THEN [queueState EXCEPT !.reportQueue = "broken"]
                              ELSE queueState
    /\ UNCHANGED <<reportVars, reportPeriod, reportTime, trace, steady, pushed, main,
                   containerPath, callback, deletionQueue, deleter, coap, NDEBUG, app,
                   pc, kind, acc, summary, phaseAcc, rnd, last, prev, accepted, nOk,
                   calls>>

\* report_queue_thread reading the queue while the handler is inside
\* reportQueue.push(summary): no lock orders the two, and the worker can
\* find the queue non-empty and take the element that is still being copied
WorkerRace ==
    /\ pc = "ready"
    /\ worker.pc = "poll"
    /\ callback.pc = "pushing"
    /\ ~callback.taken
    /\ reportQueue = <<>>
    /\ \E torn \in TornCopies(PushedSummary(callback.pending[1])) :
           worker' = [worker EXCEPT !.pc = "send", !.summary = torn]
    /\ callback' = [callback EXCEPT !.taken = TRUE]
    /\ UNCHANGED <<reportVars, reportPeriod, reportTime, reportQueue, deletionQueue,
                   trace, steady, pushed, main, containerPath, queueState, deleter,
                   coap, NDEBUG, app, pc, kind, acc, summary, phaseAcc, rnd, last,
                   prev, accepted, nOk, calls>>

\* report_queue_thread at reportQueue.empty() of a broken queue: the test
\* fails although nothing is queued, and front() yields an element that was
\* never pushed, read from memory that is no node of the queue; the thread
\* goes on like this for as long as the reads hit mapped memory
WorkerPhantom ==
    /\ pc = "ready"
    /\ worker.pc = "poll"
    /\ queueState.reportQueue = "broken"
    /\ coap.phantoms < MaxPhantoms
    /\ worker' = [worker EXCEPT !.pc = "send", !.summary = IndeterminateSampleSummary]
    /\ coap' = [coap EXCEPT !.phantoms = @ + 1]
    /\ UNCHANGED <<reportVars, reportPeriod, reportTime, reportQueue, deletionQueue,
                   trace, steady, pushed, main, containerPath, queueState, callback,
                   deleter, NDEBUG, app, pc, kind, acc, summary, phaseAcc, rnd, last,
                   prev, accepted, nOk, calls>>

\* report_queue_thread in front() or pop() of a broken queue: a read of
\* memory that is not mapped or a second free of a node ends the process
WorkerCrash ==
    /\ pc = "ready"
    /\ worker.pc = "poll"
    /\ queueState.reportQueue = "broken"
    /\ pc' = "crashed"
    /\ UNCHANGED <<reportVars, reportPeriod, reportTime, reportQueue, deletionQueue,
                   trace, steady, pushed, main, containerPath, queueState, callback,
                   worker, deleter, coap, NDEBUG, app, kind, acc, summary, phaseAcc,
                   rnd, last, prev, accepted, nOk, calls>>

\* mutant: the worker resets the report when it sends a summary
WorkerSendRequest_resetting ==
    /\ pc = "ready"
    /\ worker.pc = "send"
    /\ worker' = [worker EXCEPT !.pc = "wait",
                                !.json = SampleSummary_json(worker.summary)]
    /\ coap' = [coap EXCEPT
                  !.sent = Append(@, worker.summary),
                  !.requests = Append(@, Request("worker", "Create", containerPath,
                                                 "contentInstance"))]
    /\ rep' = SampleAccumulator_reset(now)
    /\ UNCHANGED <<sampleSummary, now, nFail, reportPeriod, reportTime, reportQueue,
                   deletionQueue, trace, steady, pushed, main, containerPath,
                   queueState, callback, deleter, NDEBUG, app, pc, kind, acc, summary,
                   phaseAcc, rnd, last, prev, accepted, nOk, calls>>

\* report_queue_thread in create_content_instance(containerPath, name, summary),
\* up to appEntity.sendRequest(request): the JSON of the summary is sent on
\* this thread to the path that the global containerPath holds
WorkerSendRequest ==
    /\ pc = "ready"
    /\ worker.pc = "send"
    /\ worker' = [worker EXCEPT !.pc = "wait",
                                !.json = SampleSummary_json(worker.summary)]
    /\ coap' = [coap EXCEPT
                  !.sent = Append(@, worker.summary),
                  !.requests = Append(@, Request("worker", "Create", containerPath,
                                                 "contentInstance"))]
    /\ UNCHANGED <<reportVars, reportPeriod, reportTime, reportQueue, deletionQueue,
                   trace, steady, pushed, main, containerPath, queueState, callback,
                   deleter, NDEBUG, app, pc, kind, acc, summary, phaseAcc, rnd, last,
                   prev, accepted, nOk, calls>>

\* appEntity.getResponse(request) returns in create_content_instance, which
\* returns to report_queue_thread: any status but CREATED is logged and the
\* summary is not sent again
WorkerGetResponse(status) ==
    /\ pc = "ready"
    /\ worker.pc = "wait"
    /\ status \in SendStatusCodes
    /\ worker' = [worker EXCEPT !.pc = "poll", !.ok = (status = "CREATED")]
    /\ UNCHANGED <<reportVars, reportPeriod, reportTime, reportQueue, deletionQueue,
                   trace, steady, pushed, main, containerPath, queueState, callback,
                   deleter, coap, NDEBUG, app, pc, kind, acc, summary, phaseAcc, rnd,
                   last, prev, accepted, nOk, calls>>

\* the response status codes of a content instance deletion
DeleteStatusCodes == {"DELETED", "NOT_FOUND", "BAD_REQUEST"}

\* notificationCallback of aos_metering_app.cpp with a report interval, delay
\* ms after the previous one, up to its deletionQueue.push(APP_PATH_CONFIG)
IntervalEnter(seconds, delay) ==
    /\ pc = "ready"
    /\ HasDeletion
    /\ callback.pc = "idle"
    /\ calls < MaxProducerCalls
    /\ coap.deletions < MaxDeletions
    /\ callback' = [pc |-> "pushing_path", pending |-> <<seconds>>, taken |-> FALSE]
    /\ steady' = steady + delay
    /\ now' = now + delay
    /\ prev' = Snapshot
    /\ calls' = calls + 1
    /\ UNCHANGED <<rep, sampleSummary, nFail, reportPeriod, reportTime, reportQueue,
                   deletionQueue, trace, pushed, main, containerPath, queueState,
                   worker, deleter, coap, NDEBUG, app, pc, kind, acc, summary,
                   phaseAcc, rnd, last, accepted, nOk>>

\* the rest of that handler: the push completes, then
\* parseReportInterval(seconds); the element of a push onto a broken queue
\* can land where the thread never looks
IntervalPushed ==
    /\ pc = "ready"
    /\ callback.pc = "pushing_path"
    /\ deletionQueue' \in
           (IF callback.taken THEN {} ELSE {Append(deletionQueue, APP_PATH_CONFIG)})
           \cup (IF callback.taken \/ queueState.deletionQueue = "broken"
                 THEN {deletionQueue} ELSE {})
    /\ \E g \in {parseReportInterval(Globals, callback.pending[1], steady)} :
           /\ reportTime' = g.reportTime
           /\ reportPeriod' = g.reportPeriod
    /\ coap' = [coap EXCEPT !.deletions = @ + 1]
    /\ trace' = <<>>
    /\ last' = [op |-> "parseReportInterval", val |-> callback.pending[1], count |-> 0,
                ret |-> "none"]
    /\ callback' = CallbackIdle
    /\ UNCHANGED <<reportVars, reportQueue, steady, pushed, main, containerPath,
                   queueState, worker, deleter, NDEBUG, app, pc, kind, acc, summary,
                   phaseAcc, rnd, prev, accepted, nOk, calls>>

\* deletion_queue_thread at deletionQueue.empty(): sleep a second and test
\* again, or take the front element; no lock orders its pop() and the
\* handler's deletionQueue.push(path), which leave the queue broken when they
\* run at the same time, and pop() of a broken queue can lose elements
DeleterPoll ==
    /\ pc = "ready"
    /\ HasDeletion
    /\ deleter.pc = "poll"
    /\ IF deletionQueue = <<>>
       THEN UNCHANGED <<deleter, deletionQueue, queueState>>
       ELSE /\ deleter' = [deleter EXCEPT !.pc = "send", !.path = Head(deletionQueue)]
            /\ deletionQueue' \in
                   IF queueState.deletionQueue = "broken"
                   THEN SubSequences(Tail(deletionQueue))
                   ELSE {Tail(deletionQueue)}
            /\ queueState' = IF callback.pc = "pushing_path"
                              THEN [queueState EXCEPT !.deletionQueue = "broken"]
                              ELSE queueState
    /\ UNCHANGED <<reportVars, reportPeriod, reportTime, reportQueue, trace, steady,
                   pushed, main, containerPath, callback, worker, coap, NDEBUG, app,
                   pc, kind, acc, summary, phaseAcc, rnd, last, prev, accepted, nOk,
                   calls>>

\* deletion_queue_thread reading the queue while the handler is inside
\* deletionQueue.push(path): it can find the queue non-empty and copy the
\* string that is still being constructed
DeleterRace ==
    /\ pc = "ready"
    /\ HasDeletion
    /\ deleter.pc = "poll"
    /\ callback.pc = "pushing_path"
    /\ ~callback.taken
    /\ deletionQueue = <<>>
    /\ deleter' = [deleter EXCEPT !.pc = "send", !.path = IndeterminatePath]
    /\ callback' = [callback EXCEPT !.taken = TRUE]
    /\ UNCHANGED <<reportVars, reportPeriod, reportTime, reportQueue, deletionQueue,
                   trace, steady, pushed, main, containerPath, queueState, worker,
                   coap, NDEBUG, app, pc, kind, acc, summary, phaseAcc, rnd, last,
                   prev, accepted, nOk, calls>>

\* deletion_queue_thread at deletionQueue.empty() of a broken queue: the test
\* fails although nothing is queued, and front() yields a string that was
\* never pushed, read from memory that is no node of the queue
DeleterPhantom ==
    /\ pc = "ready"
    /\ HasDeletion
    /\ deleter.pc = "poll"
    /\ queueState.deletionQueue = "broken"
    /\ coap.phantoms < MaxPhantoms
    /\ deleter' = [deleter EXCEPT !.pc = "send", !.path = IndeterminatePath]
    /\ coap' = [coap EXCEPT !.phantoms = @ + 1]
    /\ UNCHANGED <<reportVars, reportPeriod, reportTime, reportQueue, deletionQueue,
                   trace, steady, pushed, main, containerPath, queueState, callback,
                   worker, NDEBUG, app, pc, kind, acc, summary, phaseAcc, rnd, last,
                   prev, accepted, nOk, calls>>

\* deletion_queue_thread in front() or pop() of a broken queue: a read of
\* memory that is not mapped or a second free ends the process
DeleterCrash ==
    /\ pc = "ready"
    /\ HasDeletion
    /\ deleter.pc = "poll"
    /\ queueState.deletionQueue = "broken"
    /\ pc' = "crashed"
    /\ UNCHANGED <<reportVars, reportPeriod, reportTime, reportQueue, deletionQueue,
                   trace, steady, pushed, main, containerPath, queueState, callback,
                   worker, deleter, coap, NDEBUG, app, kind, acc, summary, phaseAcc,
                   rnd, last, prev, accepted, nOk, calls>>

\* deletion_queue_thread in delete_content_instance(path), up to
\* appEntity.sendRequest(request)
DeleterSendRequest ==
    /\ pc = "ready"
    /\ deleter.pc = "send"
    /\ deleter' = [deleter EXCEPT !.pc = "wait"]
    /\ coap' = [coap EXCEPT
                  !.requests = Append(@, Request("deleter", "Delete", deleter.path, "-"))]
    /\ UNCHANGED <<reportVars, reportPeriod, reportTime, reportQueue, deletionQueue,
                   trace, steady, pushed, main, containerPath, queueState, callback,
                   worker, NDEBUG, app, pc, kind, acc, summary, phaseAcc, rnd, last,
                   prev, accepted, nOk, calls>>

\* appEntity.getResponse(request) returns in delete_content_instance, which
\* returns to deletion_queue_thread: a status other than DELETED and
\* NOT_FOUND is logged, the path is not queued again and the loop body ends
DeleterGetResponse(status) ==
    /\ pc = "ready"
    /\ deleter.pc = "wait"
    /\ status \in DeleteStatusCodes
    /\ deleter' = DeleterStart
    /\ UNCHANGED <<reportVars, reportPeriod, reportTime, reportQueue, deletionQueue,
                   trace, steady, pushed, main, containerPath, queueState, callback,
                   worker, coap, NDEBUG, app, pc, kind, acc, summary, phaseAcc, rnd,
                   last, prev, accepted, nOk, calls>>

\* the notifications: <<delay, lag>>, the time since the previous one and the
\* time between the two clock readings of the handler, in ms
ThreadArrivals == {<<1000, 0>>, <<16000, 1>>}

\* the metersvc data of the notifications: a record with every element set
ThreadMeterSvcData ==
    [powerQuality |-> Some(CompleteRecord(Fin(230000))), summations |-> FALSE]

\* the build of unnamed/part_001: the callback and report_queue_thread
InitThreads ==
    /\ InitProducer
    /\ ~ HasDeletion

NextThreads ==
    \/ \E arrival \in ThreadArrivals :
           CallbackEnter(ThreadMeterSvcData, arrival[1], arrival[2])
    \/ CallbackPushed
    \/ callback.pc = "idle" /\ NotifyReportInterval(15, 1000)
    \/ WorkerPoll
    \/ WorkerRace
    \/ WorkerPhantom
    \/ WorkerCrash
    \/ WorkerSendRequest
    \/ \E status \in SendStatusCodes : WorkerGetResponse(status)

SpecThreads == InitThreads /\ [][NextThreads]_vars

\* the build of aos_metering_app.cpp: the callback, report_queue_thread and
\* deletion_queue_thread
InitDeletion ==
    /\ InitProducer
    /\ HasDeletion

NextDeletion ==
    \/ \E arrival \in ThreadArrivals :
           CallbackEnter(ThreadMeterSvcData, arrival[1], arrival[2])
    \/ CallbackPushed
    \/ IntervalEnter(15, 1000)
    \/ IntervalPushed
    \/ WorkerPoll
    \/ WorkerRace
    \/ WorkerPhantom
    \/ WorkerCrash
    \/ WorkerSendRequest
    \/ \E status \in SendStatusCodes : WorkerGetResponse(status)
    \/ DeleterPoll
    \/ DeleterRace
    \/ DeleterPhantom
    \/ DeleterCrash
    \/ DeleterSendRequest
    \/ \E status \in DeleteStatusCodes : DeleterGetResponse(status)

SpecDeletion == InitDeletion /\ [][NextDeletion]_vars

----------------------------------------------------------------------------
(* Properties of Report::Accumulator (SpecAcc) *)

RECURSIVE SumUpTo(_, _)
SumUpTo(h, i) == IF i < 0 THEN 0 ELSE h[i] + SumUpTo(h, i - 1)

\* the sum of the 12 counters of a histogram
SumHist(h) == SumUpTo(h, HISTOGRAM_BINS - 1)

\* the last call changed the histogram by adding 1 to bin i and nothing else
Incremented(i) ==
    /\ i \in Bins
    /\ acc.histogram = [prev.acc.histogram EXCEPT ![i] = @ + 1]

\* the bins whose exclusive upper bound exceeds v
BinsAbove(v, k) == {i \in Bins : Lt(v, binBoundaryPtr(k)[i])}

\* C1: a successful accumulate(v) adds 1 to the bin with the smallest index i
\* such that v < boundary[i] and to no other; a value equal to boundary[i]
\* is counted in bin i + 1, a value below boundary[0] in bin 0, and on the
\* 230 V table a voltage in [215.0, 220.0) in bin 3.
C1_BucketSelection ==
    (last.op = "accumulate" /\ last.ret = "true") =>
        LET v == last.val
            b == binBoundaryPtr(kind)
            S == BinsAbove(v, kind)
        IN  /\ S # {}
            /\ Incremented(CHOOSE i \in S : \A j \in S : i <= j)
            /\ \A j \in 0 .. (HISTOGRAM_BINS - 2) : v = b[j] => Incremented(j + 1)
            /\ Lt(v, b[0]) => Incremented(0)
            /\ (kind = "V" /\ EXPECTED_VOLTAGE = 230
                  /\ ~ Lt(v, Fin(215000)) /\ Lt(v, Fin(220000))) => Incremented(3)

\* a voltage equal to the boundary 215.0 has been counted in bin 3
C1_Witness ==
    /\ kind = "V"
    /\ last.op = "accumulate"
    /\ last.val = Fin(215000)
    /\ last.ret = "true"
    /\ acc.histogram[3] = 1
    /\ acc.histogram[2] = 0

\* C2: since construction or the last reset, every successful accumulate has
\* added 1 to exactly one counter, every failed one has changed no counter,
\* and the 12 counters sum to the number of successful calls.
C2_HistogramSum ==
    /\ SumHist(acc.histogram) = nOk
    /\ (last.op = "accumulate" /\ last.ret = "true") => \E i \in Bins : Incremented(i)
    /\ (last.op = "accumulate" /\ last.ret = "false") => acc.histogram = prev.acc.histogram

\* two values have been counted and a third call has failed
C2_Witness ==
    /\ last.op = "accumulate"
    /\ last.ret = "false"
    /\ nOk = 2
    /\ SumHist(acc.histogram) = 2

\* C3: an accumulate that returns false leaves total, min, max and the 12
\* counters as they were before the call.
C3_FailedAccumulateNoChange ==
    (last.op = "accumulate" /\ last.ret = "false") =>
        /\ acc.total = prev.acc.total
        /\ acc.min = prev.acc.min
        /\ acc.max = prev.acc.max
        /\ \A i \in Bins : acc.histogram[i] = prev.acc.histogram[i]

\* a NaN has been rejected by an accumulator that holds earlier values
C3_Witness ==
    /\ last.op = "accumulate"
    /\ last.ret = "false"
    /\ last.val = NaN
    /\ nOk >= 1
    /\ acc.total # Fin(0)

\* C4: for each of the six kinds accumulate(v) returns false exactly when v is
\* NaN or +infinity, and true for every finite v; the 12th boundary of every
\* table is +infinity.
C4_FailsOnlyOnNaNOrInf ==
    /\ \A k \in Kinds : binBoundaryPtr(k)[HISTOGRAM_BINS - 1] = HUGE_VAL
    /\ last.op = "accumulate" =>
           /\ last.ret \in {"true", "false"}
           /\ last.ret = "false" <=> last.val \in {NaN, HUGE_VAL}
           /\ IsFinite(last.val) => last.ret = "true"

\* a frequency above the last finite boundary has been accepted after
\* +infinity was rejected
C4_Witness ==
    /\ kind = "F"
    /\ last.op = "accumulate"
    /\ last.val = Fin(50250)
    /\ last.ret = "true"
    /\ acc.histogram[HISTOGRAM_BINS - 1] = 1
    /\ nOk = 1
    /\ calls >= 2

\* C5: once a value has been accepted, min is the smallest and max the largest
\* accepted value; min and max are NaN exactly while nothing has been accepted.
C5_MinMaxOfAccepted ==
    /\ accepted = {} <=> isnan(acc.min)
    /\ accepted = {} <=> isnan(acc.max)
    /\ accepted # {} =>
           /\ acc.min \in accepted
           /\ acc.max \in accepted
           /\ \A x \in accepted : ~ Lt(x, acc.min) /\ ~ Gt(x, acc.max)

\* three values have been accepted, the last of them strictly between the
\* other two
C5_Witness ==
    /\ nOk = 3
    /\ Cardinality(accepted) = 3
    /\ last.op = "accumulate"
    /\ Lt(acc.min, last.val)
    /\ Lt(last.val, acc.max)

\* C6: between two resets no accumulate or summarise call, successful or
\* failed, increases a min that is set or decreases a max that is set.
C6_MinMaxMonotone ==
    (last.op \in {"accumulate", "summarise"}) =>
        /\ ~ isnan(prev.acc.min) => (~ isnan(acc.min) /\ ~ Gt(acc.min, prev.acc.min))
        /\ ~ isnan(prev.acc.max) => (~ isnan(acc.max) /\ ~ Lt(acc.max, prev.acc.max))

\* an accumulate has lowered a min that was set and left the max
C6_Witness ==
    /\ last.op = "accumulate"
    /\ last.ret = "true"
    /\ ~ isnan(prev.acc.min)
    /\ Lt(acc.min, prev.acc.min)
    /\ acc.max = prev.acc.max

\* C7: summarise(summary, 0) returns false, leaves avg, min, max and the 12
\* counters of the Summary as they were and leaves the accumulator unchanged.
C7_ZeroCountSummarise ==
    (last.op = "summarise" /\ last.count = 0) =>
        /\ last.ret = "false"
        /\ summary = prev.summary
        /\ acc = prev.acc

\* the precision the specification gives for each quantity
SpecPrecision(k) == IF k \in {"I", "PF"} THEN 2 ELSE 1

\* C8: summarise(summary, count) with count > 0 returns true, copies the 12
\* counters and sets avg = round(total / count, p), min = round(min, p),
\* max = round(max, p), with p = 1 for voltage, active power, reactive power
\* and frequency and p = 2 for current and power factor.
C8_SummariseValues ==
    (last.op = "summarise" /\ last.count > 0) =>
        LET p == SpecPrecision(kind)
        IN  /\ last.ret = "true"
            /\ \A i \in Bins : summary.histogram[i] = acc.histogram[i]
            /\ summary.avg = round(Div(acc.total, last.count), p)
            /\ summary.min = round(acc.min, p)
            /\ summary.max = round(acc.max, p)

\* a current accumulator holding 0.125 and 0.25 has been summarised over two
\* samples: avg 0.18, min 0.12, max 0.25
C8_Witness ==
    /\ kind = "I"
    /\ last.op = "summarise"
    /\ last.count = 2
    /\ last.ret = "true"
    /\ acc.total = Fin(375)
    /\ summary.avg = Fin(180)
    /\ summary.min = Fin(120)
    /\ summary.max = Fin(250)
    /\ SumHist(summary.histogram) = 2

----------------------------------------------------------------------------
(* Properties of round() (SpecRound) *)

\* C9: for every finite n, round(n, p) is the largest multiple of 10^-p that
\* is <= n; round(2.449, 1) = 2.4 and round(-1.05, 1) = -1.1.
C9_FloorToDecimalPlace ==
    (last.op = "round" /\ IsFinite(rnd.n)) =>
        LET u == Pow10(3 - rnd.p)
        IN  /\ IsFinite(rnd.res)
            /\ rnd.res.num % u = 0
            /\ rnd.res.num <= rnd.n.num
            /\ rnd.n.num < rnd.res.num + u
            /\ (rnd.n = Fin(2449) /\ rnd.p = 1) => rnd.res = Fin(2400)
            /\ (rnd.n = Fin(-1050) /\ rnd.p = 1) => rnd.res = Fin(-1100)

----------------------------------------------------------------------------
(* Properties of Report::PhaseAccumulator (SpecPhase) *)

\* what the accumulator of member f makes of the last Phase
SubResult(f) == Accumulator_accumulate(prev.phaseAcc[f], KindOf(f), last.val[f])

\* member f of the last Phase is the only NaN and the other four are finite
OnlyNaN(f) ==
    /\ isnan(last.val[f])
    /\ \A g \in FieldSet \ {f} : IsFinite(last.val[g])

\* C10: PhaseAccumulator::accumulate attempts all five quantities whatever
\* failed before, and returns true if all five succeeded and false otherwise;
\* when exactly one member of the Phase is NaN it returns false, that
\* member's accumulator is unchanged and the other four have absorbed their
\* values.
C10_PhaseAccumulate ==
    (last.op = "phase_accumulate") =>
        /\ last.ret = IF \A f \in FieldSet : SubResult(f).ret THEN "true" ELSE "false"
        /\ \A f \in FieldSet : phaseAcc[f] = SubResult(f).acc
        /\ \A f \in FieldSet : OnlyNaN(f) =>
               /\ last.ret = "false"
               /\ phaseAcc[f] = prev.phaseAcc[f]
               /\ \A g \in FieldSet \ {f} :
                      /\ SumHist(phaseAcc[g].histogram) = SumHist(prev.phaseAcc[g].histogram) + 1
                      /\ phaseAcc[g].total = Add(prev.phaseAcc[g].total, last.val[g])
                      /\ ~ isnan(phaseAcc[g].min)
                      /\ ~ isnan(phaseAcc[g].max)

----------------------------------------------------------------------------
(* Properties of Report and Report::SampleAccumulator (SpecReport) *)

PhaseNames == {"p1", "p2", "p3"}

\* what the PhaseAccumulator of phase ph makes of the last sample
PhaseResult(ph) == PhaseAccumulator_accumulate(prev.rep[ph], last.val[ph])

\* what the Accumulator of member f of phase ph makes of the last sample
MemberResult(ph, f) == Accumulator_accumulate(prev.rep[ph][f], KindOf(f), last.val[ph][f])

\* what the frequency accumulator makes of the last sample
FrequencyResult == Accumulator_accumulate(prev.rep.frequency, "F", last.val.frequency)

\* the four accumulations of the last sample all succeed
AllFour == (\A ph \in PhaseNames : PhaseResult(ph).ret) /\ FrequencyResult.ret

\* C11: accumulate(sample) increments count by exactly 1 and sets tsEnd to
\* the current time if and only if the p1, p2, p3 and frequency accumulations
\* all succeeded, and then returns true; if any failed it returns false and
\* leaves count and tsEnd unchanged, while the sub-accumulators that accepted
\* their values stay updated.  tsStart is never changed by accumulate.
C11_SampleAccumulate ==
    (last.op = "report_accumulate") =>
        /\ AllFour =>
               /\ last.ret = "true"
               /\ rep.count = prev.rep.count + 1
               /\ rep.tsEnd = now
        /\ ~ AllFour =>
               /\ last.ret = "false"
               /\ rep.count = prev.rep.count
               /\ rep.tsEnd = prev.rep.tsEnd
               /\ \A ph \in PhaseNames : \A f \in FieldSet :
                      MemberResult(ph, f).ret => rep[ph][f] = MemberResult(ph, f).acc
               /\ FrequencyResult.ret => rep.frequency = FrequencyResult.acc
        /\ rep.tsStart = prev.rep.tsStart

\* the 16 child summaries of a SampleSummary are as its constructor left them
ChildrenDefault(ss) ==
    /\ \A ph \in PhaseNames : ss[ph] = PhaseSummary_new
    /\ ss.frequency = Summary_new

\* C12: summarise(sampleSummary) always writes the accumulator's count,
\* tsStart and tsEnd into sampleSummary, also when it returns false, and
\* returns true only if every one of the 16 child summarise calls succeeded.
\* Called with count = 0 on a newly constructed SampleSummary it returns false
\* and every child Summary is left default-constructed.
C12_SampleSummarise ==
    (last.op = "report_summarise") =>
        /\ last.ret \in {"true", "false"}
        /\ sampleSummary.count = rep.count
        /\ sampleSummary.tsStart = rep.tsStart
        /\ sampleSummary.tsEnd = rep.tsEnd
        /\ last.ret = "true" =>
               /\ \A ph \in PhaseNames : \A f \in FieldSet :
                      Accumulator_summarise(rep[ph][f], KindOf(f), last.val[ph][f], rep.count).ret
               /\ Accumulator_summarise(rep.frequency, "F", last.val.frequency, rep.count).ret
        /\ (rep.count = 0 /\ last.val = SampleSummary_new) =>
               /\ last.ret = "false"
               /\ ChildrenDefault(sampleSummary)

\* C13: summarise never changes the accumulator, whether it succeeds or
\* fails; two consecutive summarise calls that succeed, or that are given
\* the same or equal SampleSummary objects, leave equal summaries; a
\* successful accumulate right after a summarise raises the count that was
\* there before the summarise by one and keeps tsStart.
C13_SummariseReadOnly ==
    /\ (last.op = "report_summarise") => rep = prev.rep
    /\ (/\ last.op = "report_summarise"
        /\ prev.op = "report_summarise"
        /\ (last.ret = "true" \/ last.val = prev.val \/ last.val = prev.sampleSummary))
           => sampleSummary = prev.sampleSummary
    /\ (/\ last.op = "report_accumulate"
        /\ prev.op = "report_summarise"
        /\ last.ret = "true")
           => /\ rep.count = prev.sampleSummary.count + 1
              /\ rep.tsStart = prev.sampleSummary.tsStart

\* two samples were accumulated and summarised twice in a row
C13_Witness ==
    /\ last.op = "report_summarise"
    /\ prev.op = "report_summarise"
    /\ last.ret = "true"
    /\ rep.count = 2
    /\ sampleSummary.count = 2
    /\ sampleSummary.p1.vrms.avg = Fin(230500)
    /\ rep.p1.vrms.total = Fin(461000)

\* an accumulator as reset() leaves it
Cleared(a) ==
    /\ a.total = Fin(0)
    /\ isnan(a.min)
    /\ isnan(a.max)
    /\ \A i \in Bins : a.histogram[i] = 0

\* C14: after reset(), whatever calls came before, count() is 0, each of the
\* 16 accumulators has total 0, min and max NaN and all counters 0, tsStart
\* and tsEnd are the reset time, and a summarise issued before any further
\* accumulate returns false.
C14_Reset ==
    /\ (last.op = "report_reset") =>
           /\ Report_count(rep) = 0
           /\ \A ph \in PhaseNames : \A f \in FieldSet : Cleared(rep[ph][f])
           /\ Cleared(rep.frequency)
           /\ rep.tsStart = now
           /\ rep.tsEnd = now
    /\ (last.op = "report_summarise" /\ prev.op = "report_reset") => last.ret = "false"

\* C15: the count never decreases from one step to the next unless the step
\* is reset(); accumulate raises it by 0 or 1 and summarise leaves it unchanged.
C15_CountMonotone ==
    [][/\ Report_count(rep') < Report_count(rep) => last'.op = "report_reset"
       /\ last'.op = "report_accumulate" =>
              Report_count(rep') - Report_count(rep) \in {0, 1}
       /\ last'.op = "report_summarise" => Report_count(rep') = Report_count(rep)]_vars

\* with two samples counted, an accumulate failed and left the count at 2
C15_Witness ==
    /\ last.op = "report_accumulate"
    /\ last.ret = "false"
    /\ prev.rep.count = 2
    /\ rep.count = 2
    /\ rep.p1.vrms.total # prev.rep.p1.vrms.total

\* the voltage bin of the 230 V table with boundaries [lo, hi), in volts
VBin(lo, hi) ==
    CHOOSE i \in Bins \ {0} :
        binBoundaryV[i - 1] = Fin(1000 * lo) /\ binBoundaryV[i] = Fin(1000 * hi)

\* the last call was the k-th successful accumulate since construction, its
\* p1.vrms was v volts and the p1 voltages before it summed to before volts
Fed(k, v, before) ==
    /\ last.op = "report_accumulate"
    /\ last.ret = "true"
    /\ rep.count = k
    /\ last.val.p1.vrms = Fin(1000 * v)
    /\ prev.rep.p1.vrms.total = Fin(1000 * before)

\* the last call added one to p1 voltage bin i and to no other
Landed(i) ==
    \A j \in Bins :
        rep.p1.vrms.histogram[j] = prev.rep.p1.vrms.histogram[j] + (IF j = i THEN 1 ELSE 0)

\* C16 as stated: fed 230.0, 231.0 and 229.0 in that order, the three values
\* land in [230,235), [225,230) and [225,230).
C16_Original ==
    /\ Fed(1, 230, 0) => Landed(VBin(230, 235))
    /\ Fed(2, 231, 230) => Landed(VBin(225, 230))
    /\ Fed(3, 229, 461) => Landed(VBin(225, 230))

\* C16: fed 230.0, 231.0 and 229.0 in that order, the three values land in
\* [230,235), [230,235) and [225,230): a value belongs to the bin whose upper
\* boundary is the first one above it.
C16_Buckets ==
    /\ Fed(1, 230, 0) => Landed(VBin(230, 235))
    /\ Fed(2, 231, 230) => Landed(VBin(230, 235))
    /\ Fed(3, 229, 461) => Landed(VBin(225, 230))

\* the third of the three samples has been accumulated
C16_Witness ==
    /\ Fed(3, 229, 461)
    /\ rep.p1.vrms.histogram[VBin(230, 235)] = 2
    /\ rep.p1.vrms.histogram[VBin(225, 230)] = 1

\* three samples are counted and their p1 voltages are 229, 230 and 231
ThreeSamples ==
    /\ rep.count = 3
    /\ rep.p1.vrms.total = Fin(690000)
    /\ rep.p1.vrms.min = Fin(229000)
    /\ rep.p1.vrms.max = Fin(231000)

\* C17: after three successful accumulations with p1.vrms 230.0, 231.0 and
\* 229.0, summarise succeeds with count 3 and the p1 voltage summary has
\* avg 230.0, min 229.0, max 231.0 and counters that sum to 3.
C17_ThreeSampleSummary ==
    (last.op = "report_summarise" /\ ThreeSamples) =>
        /\ last.ret = "true"
        /\ sampleSummary.count = 3
        /\ sampleSummary.p1.vrms.avg = Fin(230000)
        /\ sampleSummary.p1.vrms.min = Fin(229000)
        /\ sampleSummary.p1.vrms.max = Fin(231000)
        /\ SumHist(sampleSummary.p1.vrms.histogram) = 3

C17_Witness ==
    /\ last.op = "report_summarise"
    /\ ThreeSamples
    /\ last.val = SampleSummary_new
    /\ sampleSummary.p1.vrms.histogram[VBin(225, 230)] = 1
    /\ sampleSummary.p1.vrms.histogram[VBin(230, 235)] = 2

\* C18: every failure of accumulate or summarise is reported as a false
\* return value: the call returns, the process is not aborted, and the
\* Report accepts further calls.
C18_FailuresReturnFalse ==
    (last.op \in {"report_accumulate", "report_summarise"}) =>
        /\ last.ret \in {"true", "false"}
        /\ pc = "ready"
        /\ (last.op = "report_accumulate" /\ ~ AllFour) => last.ret = "false"
        /\ (last.op = "report_summarise" /\ rep.count = 0) => last.ret = "false"

\* the 16 quantity accumulators of a SampleAccumulator
Quantities(sa) ==
    {sa[ph][PhaseFields[i]] : ph \in PhaseNames, i \in 1 .. Len(PhaseFields)}
        \cup {sa.frequency}

\* C30: for each of the 16 quantity accumulators of a Report the sum of the 12
\* histogram counters is >= count, and it equals count whenever no accumulate
\* call has failed since construction or the last reset.
C30_HistogramSum ==
    \A q \in Quantities(rep) :
        /\ SumHist(q.histogram) >= Report_count(rep)
        /\ nFail = 0 => SumHist(q.histogram) = Report_count(rep)

\* two samples counted, and after a failed call a histogram ahead of count
C30_Witness ==
    /\ Report_count(rep) = 2
    /\ nFail = 1
    /\ SumHist(rep.p1.vrms.histogram) = 3
    /\ SumHist(rep.p1.powerActive.histogram) = 2

----------------------------------------------------------------------------
(* Properties of the producer (SpecProducer) *)

\* C20: in the producer every report.summarise() call is followed by
\* report.reset() with no report.accumulate() in between, the sample of the
\* notification is accumulated only after that reset, and every accumulated
\* sample is counted in exactly one interval: the samples accumulated so far
\* are those of the queued summaries plus those of the running interval.
C20_Checkpoint ==
    last.op = "parseMeterSvcData" =>
        /\ \A i \in 1 .. Len(trace) :
               /\ trace[i] = "summarise" => (i < Len(trace) /\ trace[i + 1] = "reset")
               /\ trace[i] = "accumulate" => i = Len(trace)
        /\ nOk = pushed + Report_count(rep)

\* TRUE when x * 1000 >= g, without forming the product
TimesThousandAtLeast(x, g) ==
    IF g > 0 THEN x > (g - 1) \div 1000 ELSE x >= -((-g) \div 1000)

\* TRUE when t is the later of timeNow and old + shift * 1000 ms
IsShiftedOrNow(t, old, shift, timeNow) ==
    IF TimesThousandAtLeast(shift, timeNow - old)
    THEN (t - old) % 1000 = 0 /\ (t - old) \div 1000 = shift
    ELSE t = timeNow

\* C25: parseReportInterval(seconds) with seconds < 15 or seconds > 2678400
\* leaves reportPeriod and reportTime unchanged; with seconds in range it sets
\* reportPeriod to seconds and reportTime to the later of now and the old
\* reportTime + (seconds - old reportPeriod) * 1000 ms; and parseMeterSvcData
\* entered at or after a reportTime that is set sends a report.
C25_ReportInterval ==
    /\ last.op = "parseReportInterval" =>
           IF last.val < 15 \/ last.val > 2678400
           THEN reportPeriod = prev.reportPeriod /\ reportTime = prev.reportTime
           ELSE /\ reportPeriod = last.val
                /\ IsShiftedOrNow(reportTime, prev.reportTime,
                                  last.val - prev.reportPeriod, steady)
    /\ (last.op = "parseMeterSvcData" /\ prev.reportTime > 0
            /\ steady >= prev.reportTime)
           => trace[1] = "summarise"

----------------------------------------------------------------------------
(* Properties of the setup loop of main() (SpecSetup) *)

\* the n-th backoff of a pass, in seconds: 30 doubled n - 1 times, at most 960
NthBackoff(n) == IF n > 6 THEN 960 ELSE BACKOFF_DEFAULT_S * 2 ^ (n - 1)

\* C26: in the activation retry loop a failure whose reason is neither Timeout
\* nor NotRegistered sleeps for the current backoff; the backoff starts at 30 s
\* on every pass of the setup loop and doubles after each such sleep until it
\* reaches 960 s, where it stays; a Timeout or NotRegistered failure retries at
\* once, without a sleep and without changing the backoff.
C26_Backoff ==
    /\ main.backoffSeconds <= 960
    /\ main.backoffSeconds =
           NthBackoff(IF main.pc = 1 /\ main.at = "sleep"
                      THEN Len(main.sleeps) ELSE Len(main.sleeps) + 1)
    /\ \A i \in 1 .. Len(main.sleeps) : main.sleeps[i] = NthBackoff(i)
    /\ (main.pc = 1 /\ main.at = "sleep") =>
           last.op = "activate" /\ last.val = "Other"
    /\ (last.op = "activate" /\ last.val = "Other") =>
           /\ main.slept = last.count
           /\ main.sleeps[Len(main.sleeps)] = last.count
           /\ main.pc = 1
           /\ main.at = "sleep" => main.backoffSeconds = last.count
    /\ (last.op = "activate" /\ last.val \in {"Timeout", "NotRegistered"}) =>
           /\ main.slept = 0
           /\ main.backoffSeconds = last.count
           /\ main.pc = 1
           /\ main.at # "sleep"

\* the seventh sleep of a pass, at the 960 s the backoff has reached
C26_Witness ==
    /\ main.at = "sleep"
    /\ Len(main.sleeps) = 7
    /\ main.sleeps[6] = 960
    /\ main.sleeps[7] = 960
    /\ main.backoffSeconds = 960

\* the steps for which a CONFLICT response counts as success
CreatingSteps ==
    {"create_subscription(metersvc)", "create_meter_read_policy", "create_container",
     "create_subscription(local)"}

\* C27: the setup loop reaches appEntity.waitForever() only after activation,
\* the metersvc subscription, the meter read policy, the local container, the
\* local subscription, IN-AE discovery and IN-AE container discovery have all
\* succeeded in that order within one pass; a step after activation that does
\* not succeed sleeps 30 s and restarts the pass from activation; a CONFLICT
\* response counts as success for subscription, policy and container creation.
C27_SetupOrder ==
    /\ main.done = SubSeq(SetupSteps, 1, main.pc - 1)
    /\ main.pc = Len(SetupSteps) + 1 => main.done = SetupSteps
    /\ (last.op \in CreatingSteps \cup {"discover_in_ae", "discover_container"}
            /\ last.ret # "true")
           => /\ main.slept = BACKOFF_DEFAULT_S
              /\ IF main.at = "sleep"
                 THEN SetupSteps[main.pc] = last.op
                 ELSE main = [MainStart EXCEPT !.slept = BACKOFF_DEFAULT_S,
                                               !.at = main.at]
    /\ (main.pc > 1 /\ main.at = "sleep") => last.op = SetupSteps[main.pc]
    /\ main.pc = Len(SetupSteps) + 1 => containerPath = DiscoveredPath
    /\ (last.op \in CreatingSteps /\ last.val = "CONFLICT") => last.ret = "true"

----------------------------------------------------------------------------
(* Properties of the callback and the queue threads (SpecThreads, SpecDeletion) *)

\* the keys of a JSON object, in the order of emission
Keys(j) == [i \in 1 .. Len(j) |-> j[i][1]]

\* q is the JSON object of the Summary s
IsQuantityObject(q, s) ==
    /\ Keys(q) = <<"avg", "min", "max", "h">>
    /\ q[1][2] = s.avg
    /\ q[2][2] = s.min
    /\ q[3][2] = s.max
    /\ Len(q[4][2]) = 12
    /\ \A b \in 0 .. 11 : q[4][2][b + 1] = s.histogram[b]

\* o is the JSON object of the PhaseSummary ps
IsPhaseObject(o, ps) ==
    /\ Keys(o) = <<"v", "i", "p", "q", "pf">>
    /\ \A m \in 1 .. 5 : IsQuantityObject(o[m][2], ps[PhaseFields[m]])

\* C23: SampleSummary::json emits the keys p, f, n, ts, te in that order; p is
\* an array of exactly three phase objects, for p1, p2, p3 in that order, each
\* with the keys v, i, p, q, pf in that order; every quantity object, f
\* included, has the keys avg, min, max, h in that order with h an array of
\* the 12 counters in bucket order; n is the summary's count and ts and te are
\* tsStart and tsEnd in whole seconds since the epoch.
C23_JsonLayout ==
    worker.json # <<>> =>
        LET j == worker.json
            ss == coap.sent[Len(coap.sent)]
        IN  /\ Keys(j) = <<"p", "f", "n", "ts", "te">>
            /\ Len(j[1][2]) = 3
            /\ IsPhaseObject(j[1][2][1], ss.p1)
            /\ IsPhaseObject(j[1][2][2], ss.p2)
            /\ IsPhaseObject(j[1][2][3], ss.p3)
            /\ IsQuantityObject(j[2][2], ss.frequency)
            /\ j[3][2] = ss.count
            /\ j[4][2] * 1000 <= ss.tsStart /\ ss.tsStart < (j[4][2] + 1) * 1000
            /\ j[5][2] * 1000 <= ss.tsEnd /\ ss.tsEnd < (j[5][2] + 1) * 1000

\* the worker has sent the JSON of a summary of at least one sample that
\* starts in the middle of a second
C23_Witness ==
    /\ worker.json # <<>>
    /\ worker.pc = "poll"
    /\ worker.summary.count >= 1
    /\ worker.json[4][2] >= 1
    /\ worker.summary.tsStart > worker.json[4][2] * 1000
    /\ SumHist(worker.summary.p1.vrms.histogram) >= 1

\* C21: the global Report is read and mutated only in the context of the
\* notification callback: accumulate, summarise, count and reset are called
\* only from parseMeterSvcData, never from the setup loop of main() or from the
\* queue worker thread, so no two of these calls interleave.
C21_ReportCalls ==
    [][(rep' # rep \/ (trace' # trace /\ trace' # <<>>)) =>
           /\ last'.op = "parseMeterSvcData"
           /\ worker' = worker
           /\ deleter' = deleter
           /\ main' = main
           /\ callback'.pc = "idle"
           /\ callback.pc = "pushing" \/ calls' = calls + 1]_vars

\* a handler has changed the report while the worker, which has sent a summary
\* before, is about to send the next one
C21_Witness ==
    /\ worker.pc = "send"
    /\ coap.sent # <<>>
    /\ last.op = "parseMeterSvcData"
    /\ callback.pc = "idle"
    /\ rep # prev.rep
    /\ "accumulate" \in {trace[i] : i \in 1 .. Len(trace)}

\* C22: no request to the CoAP stack is issued from within
\* notificationCallback or the functions it calls; every transmission or
\* deletion triggered by a notification is handed to a worker thread through
\* a queue and performed there: a handler that ends has queued its summary
\* or its path (the push onto a broken queue can lose it) and has sent
\* nothing, and a request is sent by a step of report_queue_thread or of
\* deletion_queue_thread that leaves the callback as it is.
C22_WorkerSends ==
    /\ [](\A n \in 1 .. Len(coap.requests) :
              coap.requests[n].thread \in {"worker", "deleter"})
    /\ [][/\ (callback.pc # "idle" /\ callback'.pc = "idle") =>
                (/\ coap'.sent = coap.sent
                 /\ coap'.requests = coap.requests)
          /\ (callback.pc = "pushing" /\ callback'.pc = "idle") =>
                coap'.queued = Append(coap.queued, PushedSummary(callback.pending[1]))
          /\ (callback.pc = "pushing_path" /\ callback'.pc = "idle") =>
                (/\ coap'.deletions = coap.deletions + 1
                 /\ deletionQueue' \in {deletionQueue,
                                        Append(deletionQueue, APP_PATH_CONFIG)})
          /\ (coap'.sent # coap.sent \/ coap'.requests # coap.requests) =>
                (/\ callback' = callback
                 /\ last' = last
                 /\ \/ /\ worker.pc = "send"
                       /\ worker'.pc = "wait"
                       /\ coap'.sent = Append(coap.sent, worker.summary)
                       /\ deleter' = deleter
                    \/ /\ deleter.pc = "send"
                       /\ deleter'.pc = "wait"
                       /\ coap'.sent = coap.sent
                       /\ worker' = worker)]_vars

\* the worker has performed the transmission that a handler queued, and the
\* deletion thread the deletion that a handler queued
C22_Witness ==
    /\ \E n \in 1 .. Len(coap.requests) :
           coap.requests[n] = Request("worker", "Create", containerPath,
                                      "contentInstance")
    /\ \E n \in 1 .. Len(coap.requests) :
           coap.requests[n] = Request("deleter", "Delete", APP_PATH_CONFIG, "-")
    /\ Len(coap.sent) = 1
    /\ Len(coap.queued) = 1
    /\ coap.deletions = 1
    /\ worker.pc = "poll"
    /\ deleter.pc = "poll"
    /\ callback.pc = "idle"

\* the number of summaries that the worker has taken from the queue
Taken == Len(coap.sent) + (IF worker.pc = "send" THEN 1 ELSE 0)

\* C28: summaries are transmitted in the order in which they were pushed onto
\* reportQueue, and create_content_instance is called at most once for each
\* queued summary: a summary whose transmission fails is logged and dropped,
\* never queued again or retried.
C28_QueueOrder ==
    /\ Len(coap.sent) <= Len(Pushes)
    /\ \A i \in 1 .. Len(coap.sent) : coap.sent[i] = Pushes[i]
    /\ callback.pc = "idle" =>
           reportQueue = SubSeq(coap.queued, Taken + 1, Len(coap.queued))

\* C29: under fair scheduling of report_queue_thread, and provided each
\* create_content_instance call returns, every summary pushed onto reportQueue
\* is eventually removed from the queue and passed to create_content_instance;
\* the queue is never left non-empty forever.  Stated on the states in which
\* nothing more can be sent: once the queue is empty, no push is in progress
\* and the worker is back at its test of reportQueue.empty(), every summary
\* pushed has been passed to create_content_instance.
C29_Drained ==
    (callback.pc = "idle" /\ reportQueue = <<>> /\ worker.pc = "poll") =>
        /\ Len(coap.sent) = Len(coap.queued)
        /\ \A n \in 1 .. Len(coap.queued) : coap.sent[n] = coap.queued[n]

----------------------------------------------------------------------------
(* Properties of the summaries and of the accumulator state (SpecReport,  *)
(* SpecAcc)                                                                *)

\* a <= b on doubles: false when either side is NaN
Le(a, b) == ~ isnan(a) /\ ~ isnan(b) /\ ~ Lt(b, a)

\* C31: in every SampleSummary for which Report::summarise returned true, each
\* of the 16 quantity summaries satisfies min <= avg <= max, after any sequence
\* of accumulate calls including ones that failed.
C31_MinAvgMax ==
    (last.op = "report_summarise" /\ last.ret = "true") =>
        \A q \in Quantities(sampleSummary) : Le(q.min, q.avg) /\ Le(q.avg, q.max)

\* the 16 quantities of a Report, as paths into its records
QuantityPaths ==
    {<<ph, PhaseFields[i]>> : ph \in PhaseNames, i \in 1 .. Len(PhaseFields)}
        \cup {<<"frequency">>}

\* the member of the record x at a path
At(x, path) == IF Len(path) = 2 THEN x[path[1]][path[2]] ELSE x.frequency

\* the kind of the quantity at a path
KindAt(path) == IF Len(path) = 2 THEN KindOf(path[2]) ELSE "F"

\* the child summarise call that the last Report::summarise makes at a path
ChildSummarise(path) ==
    Accumulator_summarise(At(prev.rep, path), KindAt(path), At(last.val, path),
                          prev.rep.count)

\* C32: SampleAccumulator::summarise is all-or-nothing: it returns true if and
\* only if count > 0, and in a single call either all 16 child summarise calls
\* succeed or all 16 fail; a summary in which some quantities were written and
\* others were not cannot be produced.
C32_AllOrNothing ==
    last.op = "report_summarise" =>
        /\ last.ret = "true" <=> prev.rep.count > 0
        /\ \/ \A path \in QuantityPaths :
                  /\ ChildSummarise(path).ret
                  /\ At(sampleSummary, path) = ChildSummarise(path).summary
                  /\ At(sampleSummary, path).histogram = At(prev.rep, path).histogram
           \/ \A path \in QuantityPaths :
                  /\ ~ ChildSummarise(path).ret
                  /\ At(sampleSummary, path) = At(last.val, path)

\* a summarise that failed on a summary which an earlier call had filled: the
\* children keep what they held
C32_Witness ==
    /\ last.op = "report_summarise"
    /\ last.ret = "false"
    /\ last.val.count >= 1
    /\ sampleSummary.count = 0
    /\ SumHist(sampleSummary.p1.vrms.histogram) >= 1

\* C33: in every reachable state of a Report, count > 0 implies that every one
\* of the 16 quantity accumulators has accepted at least one value, so its min
\* and max are not NaN; hence no summary for which summarise returned true
\* contains a NaN min or max.
C33_NoNaNMinMax ==
    /\ Report_count(rep) > 0 =>
           \A q \in Quantities(rep) :
               SumHist(q.histogram) >= 1 /\ ~ isnan(q.min) /\ ~ isnan(q.max)
    /\ (last.op = "report_summarise" /\ last.ret = "true") =>
           \A q \in Quantities(sampleSummary) : ~ isnan(q.min) /\ ~ isnan(q.max)

\* a summary of one sample, taken after a failed accumulate had left some
\* accumulators with a value and others without
C33_Witness ==
    /\ last.op = "report_summarise"
    /\ last.ret = "true"
    /\ sampleSummary.count = 1
    /\ nFail >= 1
    /\ SumHist(rep.p1.powerActive.histogram) = 1
    /\ SumHist(rep.p1.vrms.histogram) = 2

\* C34: a non-finite measurement (NaN, +infinity or -infinity) never enters
\* accumulator state: in every reachable state the accumulator's total is
\* finite and its min and max are either both NaN (nothing accepted yet) or
\* finite, whatever doubles are offered to accumulate.
C34_FiniteState ==
    /\ IsFinite(acc.total)
    /\ \/ isnan(acc.min) /\ isnan(acc.max)
       \/ IsFinite(acc.min) /\ IsFinite(acc.max)

\* C35: in every reachable state of a Report tsStart <= tsEnd, given a clock
\* that never goes backwards: reset sets both to the same instant and only a
\* successful accumulate moves tsEnd, always to the current time.
C35_StartBeforeEnd ==
    /\ rep.tsStart <= rep.tsEnd
    /\ rep.tsEnd <= now
    /\ last.op = "report_reset" => rep.tsStart = now /\ rep.tsEnd = now
    /\ (last.op = "report_accumulate" /\ last.ret = "true") =>
           rep.tsEnd = now /\ rep.tsStart = prev.rep.tsStart
    /\ (last.op = "report_summarise" \/ last.op = "tick"
            \/ (last.op = "report_accumulate" /\ last.ret # "true")) =>
           rep.tsEnd = prev.rep.tsEnd /\ rep.tsStart = prev.rep.tsStart

\* a sample accumulated later than the reset, after a failed call that left
\* tsEnd alone
C35_Witness ==
    /\ last.op = "report_accumulate"
    /\ last.ret = "true"
    /\ rep.tsStart < rep.tsEnd
    /\ nFail >= 1

----------------------------------------------------------------------------
(* Properties of the report schedule (SpecProducer, SpecInterval) *)

\* C36: no summary with count == 0 is ever pushed onto reportQueue: for every
\* interleaving of meter-data notifications and report-interval notifications
\* from process start (a report-interval notification before the first meter
\* data, meter data without a power-quality block and samples whose
\* accumulation fails included), report.summarise() has succeeded for every
\* summary that is queued for transmission.
C36_NoEmptySummary ==
    \A i \in 1 .. Len(reportQueue) : reportQueue[i].count > 0

\* TRUE when t is base + offset ms plus reportPeriod seconds
IsPlusPeriod(t, base, offset) ==
    /\ (t - base - offset) % 1000 = 0
    /\ (t - base - offset) \div 1000 = reportPeriod

\* C37: each call of parseMeterSvcData pushes at most one summary onto
\* reportQueue, and when it returns the scheduled reportTime is strictly later
\* than the time it read at entry (first run: now + reportPeriod - 500 ms;
\* report sent: previous reportTime + reportPeriod, or now + reportPeriod if
\* that is not in the future), so missed report times never cause a burst of
\* catch-up reports.
C37_OneReport ==
    (last.op = "parseMeterSvcData" /\ last.ret # "abort") =>
        /\ Len(reportQueue) <= Len(prev.reportQueue) + 1
        /\ reportTime > steady
        /\ (steady >= prev.reportTime /\ prev.reportTime <= 0) =>
               IsPlusPeriod(reportTime, steady, -500)
        /\ (steady >= prev.reportTime /\ prev.reportTime > 0) =>
               /\ Len(reportQueue) = Len(prev.reportQueue) + 1
               /\ IF TimesThousandAtLeast(reportPeriod, steady - prev.reportTime + 1)
                  THEN IsPlusPeriod(reportTime, prev.reportTime, 0)
                  ELSE IsPlusPeriod(reportTime, steady, 0)
        /\ steady < prev.reportTime =>
               reportTime = prev.reportTime /\ reportQueue = prev.reportQueue

\* TRUE when the 32-bit product x * 1000 is the product of the integers
ExactTimes1000(x) ==
    Int32Times1000(x) % 1000 = 0 /\ Int32Times1000(x) \div 1000 = x

\* C38: for every report interval that parseReportInterval accepts
\* (15 <= seconds <= 2678400) and every previous accepted interval, the 32-bit
\* signed int products reportPeriod * 1000 and (seconds - reportPeriod) * 1000
\* used to compute reportTime do not overflow, so the next report is always
\* scheduled exactly reportPeriod seconds after the previous one.
C38_NoOverflow ==
    /\ ExactTimes1000(reportPeriod)
    /\ (last.op = "parseReportInterval" /\ last.val >= 15 /\ last.val <= 2678400) =>
           ExactTimes1000(last.val - prev.reportPeriod)
    /\ (last.op = "parseMeterSvcData" /\ last.ret # "abort" /\ prev.reportTime > 0
            /\ steady >= prev.reportTime
            /\ TimesThousandAtLeast(reportPeriod, steady - prev.reportTime + 1)) =>
           IsPlusPeriod(reportTime, prev.reportTime, 0)

====
